---- MODULE Spec2Model ----
(***************************************************************************)
(* Cryptopad: the in-memory note store of the API server (server/index.js, *)
(* kept here as src/unnamed/part_002).                                      *)
(*                                                                          *)
(* The server is a single Node.js process.  Every route handler and the     *)
(* setInterval sweep is synchronous code without an await, so each runs to  *)
(* completion before the next one starts: "concurrent" requests are the     *)
(* interleavings of whole handlers, and each handler is one action here.    *)
(*                                                                          *)
(* Time is Date.now() counted in milliseconds since the process started.    *)
(* A JavaScript number that comes from a request body is kept as a fixed    *)
(* point value: the integer q stands for q / Q.                             *)
(***************************************************************************)
EXTENDS Integers, Sequences, FiniteSets, TLC

(***************************************************************************)
(* Bounds of the model.                                                     *)
(***************************************************************************)
Q == 2                \* denominator of the fixed point request numbers
MaxCreates == 2       \* POST requests handled in one behaviour
MaxReads == 3         \* GET requests handled in one behaviour
MaxVaultReads == 6    \* GET requests handled in one behaviour of SpecVault
MaxTicks == 3         \* clock advances in one behaviour
MaxLag == 1           \* milliseconds between the two Date.now() calls of a POST
TickMs == 30000       \* one clock advance, in milliseconds
LiveTicks == 5         \* clock advances in one behaviour of SpecLive
MaxRuns == 2          \* runs of the viewer's effect in one behaviour
MaxAttempts == 2      \* password submissions in one behaviour
MaxCompareLen == 2    \* longest string handed to timingSafeEqual

(***************************************************************************)
(* Configuration, with no environment variable set.                         *)
(***************************************************************************)
MAX_MINUTES == 10080
DEFAULT_VIEWS == 10
MAX_VIEWS == 50
SWEEP_MS == 60000
ID_MIN == 6
ID_MAX == 36
BLOB_MAX == 20000

(***************************************************************************)
(* JavaScript values of a JSON request body.  Str(ch, n) is the string made *)
(* of n copies of the character ch.                                         *)
(***************************************************************************)
Undefined == [type |-> "undefined"]
Null == [type |-> "null"]
Bool(b) == [type |-> "boolean", b |-> b]
Str(ch, n) == [type |-> "string", ch |-> ch, len |-> n]
Fin(q) == [type |-> "number", kind |-> "finite", q |-> q]
Num(n) == Fin(n * Q)
NaN == [type |-> "number", kind |-> "NaN"]
PosInf == [type |-> "number", kind |-> "+Infinity"]
NegInf == [type |-> "number", kind |-> "-Infinity"]

Min2(a, b) == IF a <= b THEN a ELSE b
Max2(a, b) == IF a >= b THEN a ELSE b

Digits == {"0", "1", "2", "3", "4", "5", "6", "7", "8", "9"}
DigitVal(c) == CASE c = "0" -> 0 [] c = "1" -> 1 [] c = "2" -> 2 [] c = "3" -> 3
                 [] c = "4" -> 4 [] c = "5" -> 5 [] c = "6" -> 6 [] c = "7" -> 7
                 [] c = "8" -> 8 [] c = "9" -> 9

RECURSIVE Repeated(_, _)
\* the decimal value of n copies of the digit d
Repeated(d, n) == IF n = 0 THEN 0 ELSE Repeated(d, n - 1) * 10 + d

\* Number(v)
ToNumber(v) ==
    CASE v.type = "number" -> v
      [] v.type = "undefined" -> NaN
      [] v.type = "null" -> Num(0)
      [] v.type = "boolean" -> IF v.b THEN Num(1) ELSE Num(0)
      [] v.type = "string" ->
            IF v.len = 0 \/ v.ch = " " THEN Num(0)
            ELSE IF v.ch \in Digits THEN Num(Repeated(DigitVal(v.ch), v.len))
            ELSE NaN

\* Number.isFinite(n) for a number n
IsFinite(n) == n.type = "number" /\ n.kind = "finite"

\* Boolean(v)
ToBoolean(v) ==
    CASE v.type = "boolean" -> v.b
      [] v.type = "undefined" -> FALSE
      [] v.type = "null" -> FALSE
      [] v.type = "number" -> IF IsFinite(v) THEN v.q # 0 ELSE v.kind # "NaN"
      [] v.type = "string" -> v.len > 0

\* Math.floor on a fixed point value
Floor(q) == (q \div Q) * Q

NoEntry == [type |-> "absent"]

Put(store, id, entry) ==
    [k \in DOMAIN store \cup {id} |-> IF k = id THEN entry ELSE store[k]]
Remove(store, ids) == [k \in DOMAIN store \ ids |-> store[k]]
Lookup(store, id) == IF id \in DOMAIN store THEN store[id] ELSE NoEntry

VARIABLES
    messageStore,   \* the Map: id -> entry
    now,            \* Date.now(), in ms since the process started
    nextSweep,      \* when the setInterval callback is next due
    last,           \* the request handled last, with its response
    hist,           \* per id created: how its current entry was made and read
    tomb,           \* the ids an entry of which was deleted from the Map
    creates,        \* POST requests handled so far
    reads,          \* GET requests handled so far
    stash,          \* localStorage["cryptopad::stash"]: id -> LocalEntry
    localLast,      \* the local fallback call made last, with its outcome
    sent,           \* the notes the composer submitted, with what it sent
    codec,          \* one envelope: sealed, altered on the way, opened
    viewer,         \* the MessageViewer component: props, state, hydrate runs
    env             \* DEFAULT_VIEWS and MAX_VIEWS as read from process.env at start

\* the variables of the browser side
browser == <<stash, localLast, sent, codec, viewer>>

vars == <<messageStore, now, nextSweep, last, hist, tomb, creates, reads,
          stash, localLast, sent, codec, viewer, env>>

(***************************************************************************)
(* POST /api/message                                                        *)
(***************************************************************************)
\* faulty variant: the upper length bound is off by one
ValidIdOffByOne(id) == id.type = "string" /\ ~(id.len < ID_MIN \/ id.len > ID_MAX + 1)

ValidId(id) == id.type = "string" /\ ~(id.len < ID_MIN \/ id.len > ID_MAX)

ValidEncrypted(encrypted) ==
    encrypted.type = "string" /\ ~(encrypted.len = 0 \/ encrypted.len > BLOB_MAX)

\* minutes is Number(expiresInMinutes)
ValidMinutes(minutes) == ~(~IsFinite(minutes) \/ minutes.q <= 0)

\* faulty variant: the window is not capped
SafeMinutesUncapped(minutes) == minutes.q

\* Math.min(minutes, MAX_MINUTES), fixed point
SafeMinutes(minutes) == Min2(minutes.q, MAX_MINUTES * Q)

\* Date.now() + safeMinutes * 60 * 1000
ExpiresAt(t, safeMinutes) == t + (safeMinutes * 60 * 1000) \div Q

\* the view budget of a vault entry
VaultViews(maxViews) ==
    LET parsedViews == ToNumber(maxViews) IN
    IF IsFinite(parsedViews)
    THEN Min2(Min2(Max2(Floor(parsedViews.q), 2 * Q), Max2(env.DEFAULT_VIEWS * Q, 2 * Q)),
              env.MAX_VIEWS * Q) \div Q
    ELSE Max2(env.DEFAULT_VIEWS, 2)

ResolveViews(burnFlag, maxViews) == IF burnFlag THEN 1 ELSE VaultViews(maxViews)

NewEntry(req, t, lag) ==
    LET burnFlag == ToBoolean(req.burnAfterRead) IN
    [ encrypted |-> req.encrypted,
      expiresAt |-> ExpiresAt(t, SafeMinutes(ToNumber(req.expiresInMinutes))),
      burnAfterRead |-> burnFlag,
      remainingViews |-> ResolveViews(burnFlag, req.maxViews),
      createdAt |-> t + lag ]

\* faulty variant: the count is reported for a burn-after-read entry too
CreatedBodyAlwaysCount(entry) ==
    [ expiresAt |-> entry.expiresAt, remainingViews |-> Num(entry.remainingViews) ]

CreatedBody(entry) ==
    [ expiresAt |-> entry.expiresAt,
      remainingViews |-> IF entry.burnAfterRead THEN Null ELSE Num(entry.remainingViews) ]

\* the 400 response of the first check that fails, or "" when all pass
CreateError(req) ==
    IF ~ValidId(req.id) THEN "Invalid id supplied"
    ELSE IF ~ValidEncrypted(req.encrypted) THEN "Encrypted payload is missing or too large"
    ELSE IF ~ValidMinutes(ToNumber(req.expiresInMinutes)) THEN "Expiry must be a positive number"
    ELSE ""

PostMessage(req, lag) ==
    IF CreateError(req) # ""
    THEN /\ last' = [op |-> "create", req |-> req, t |-> now, status |-> 400,
                     body |-> [message |-> CreateError(req)],
                     pre |-> Lookup(messageStore, req.id), dead |-> req.id \in tomb]
         /\ UNCHANGED <<messageStore, now, nextSweep, hist, tomb>>
    ELSE LET entry == NewEntry(req, now, lag) IN
         /\ messageStore' = Put(messageStore, req.id, entry)
         /\ now' = now + lag
         /\ last' = [op |-> "create", req |-> req, t |-> now, status |-> 201,
                     body |-> CreatedBody(entry), pre |-> Lookup(messageStore, req.id),
                     dead |-> req.id \in tomb]
         /\ hist' = Put(hist, req.id,
                        [ budget |-> entry.remainingViews, burn |-> entry.burnAfterRead,
                          t0 |-> now, expiresAt |-> entry.expiresAt,
                          ttl |-> req.expiresInMinutes, maxViews |-> req.maxViews,
                          reads |-> <<>>, gone |-> "no" ])
         /\ UNCHANGED <<nextSweep, tomb>>

(***************************************************************************)
(* GET /api/message/:id                                                     *)
(***************************************************************************)
\* faulty variant: the instant of expiry itself still counts as live
ExpiredStrictly(entry, t) == entry.expiresAt < t

Expired(entry, t) == entry.expiresAt <= t

Exhausted(entry) == entry.remainingViews <= 0

\* faulty variant: the count is clamped but not decremented
DecrementStale(remainingViews) == Max2(0, remainingViews)

\* Math.max(0, entry.remainingViews - 1)
Decrement(remainingViews) == Max2(0, remainingViews - 1)

\* faulty variant: a burn-after-read entry is not deleted by the read that serves it
AfterServeKeepsBurn(entry) ==
    IF entry.burnAfterRead THEN entry
    ELSE IF Decrement(entry.remainingViews) <= 0 THEN NoEntry
    ELSE [entry EXCEPT !.remainingViews = Decrement(entry.remainingViews)]

\* faulty variant: a vault entry is deleted one view early
AfterServeEarly(entry) ==
    IF entry.burnAfterRead THEN NoEntry
    ELSE IF Decrement(entry.remainingViews) <= 1 THEN NoEntry
    ELSE [entry EXCEPT !.remainingViews = Decrement(entry.remainingViews)]

\* what a read that serves the blob leaves in the Map for the id
AfterServe(entry) ==
    IF entry.burnAfterRead THEN NoEntry
    ELSE IF Decrement(entry.remainingViews) <= 0 THEN NoEntry
    ELSE [entry EXCEPT !.remainingViews = Decrement(entry.remainingViews)]

\* faulty variant: the count before the decrement is reported
ServedBodyStale(entry) ==
    [ encrypted |-> entry.encrypted,
      expiresAt |-> entry.expiresAt,
      remainingViews |-> IF entry.burnAfterRead THEN Num(0)
                         ELSE Num(entry.remainingViews) ]

ServedBody(entry) ==
    [ encrypted |-> entry.encrypted,
      expiresAt |-> entry.expiresAt,
      remainingViews |-> IF entry.burnAfterRead THEN Num(0)
                         ELSE Num(Decrement(entry.remainingViews)) ]

NotFoundBody == [message |-> "Message not found or already burned"]

\* faulty variant: an expired entry is answered with 410 but left in the Map
ReadResultKeepsExpired(entry, t) ==
    IF entry = NoEntry
    THEN [status |-> 404, body |-> NotFoundBody, next |-> NoEntry, how |-> "no"]
    ELSE IF Expired(entry, t)
    THEN [status |-> 410, body |-> [message |-> "Message expired"], next |-> entry,
          how |-> "expired"]
    ELSE IF Exhausted(entry)
    THEN [status |-> 404, body |-> NotFoundBody, next |-> NoEntry, how |-> "exhausted"]
    ELSE [status |-> 200, body |-> ServedBody(entry), next |-> AfterServe(entry),
          how |-> IF AfterServe(entry) # NoEntry THEN "no"
                  ELSE IF entry.burnAfterRead THEN "burn" ELSE "exhausted"]

\* status, body, the entry left in the Map, and why an entry left it
ReadResult(entry, t) ==
    IF entry = NoEntry
    THEN [status |-> 404, body |-> NotFoundBody, next |-> NoEntry, how |-> "no"]
    ELSE IF Expired(entry, t)
    THEN [status |-> 410, body |-> [message |-> "Message expired"], next |-> NoEntry,
          how |-> "expired"]
    ELSE IF Exhausted(entry)
    THEN [status |-> 404, body |-> NotFoundBody, next |-> NoEntry, how |-> "exhausted"]
    ELSE [status |-> 200, body |-> ServedBody(entry), next |-> AfterServe(entry),
          how |-> IF AfterServe(entry) # NoEntry THEN "no"
                  ELSE IF entry.burnAfterRead THEN "burn" ELSE "exhausted"]

\* the log of the reads of an entry: the status, the count reported, and whether
\* the read came at or after (late), or after (over), the entry's expiry
Logged(h, r, t, entry) ==
    [h EXCEPT !.reads = Append(@, [status |-> r.status,
                                   remainingViews |-> IF r.status = 200
                                                      THEN r.body.remainingViews ELSE Null,
                                   late |-> t >= h.expiresAt,
                                   over |-> t > h.expiresAt]),
              !.gone = IF r.how # "no" THEN r.how ELSE @]

GetMessage(id) ==
    LET entry == Lookup(messageStore, id)
        r == ReadResult(entry, now)
    IN  /\ messageStore' = IF r.next = NoEntry THEN Remove(messageStore, {id})
                           ELSE Put(messageStore, id, r.next)
        /\ last' = [op |-> "read", req |-> [id |-> id], t |-> now, status |-> r.status,
                    body |-> r.body, pre |-> entry, dead |-> id \in tomb]
        /\ hist' = IF id \in DOMAIN hist THEN Put(hist, id, Logged(hist[id], r, now, entry))
                   ELSE hist
        /\ tomb' = IF entry # NoEntry /\ r.next = NoEntry THEN tomb \cup {id} ELSE tomb
        /\ UNCHANGED <<now, nextSweep>>

(***************************************************************************)
(* DELETE /api/message/:id                                                  *)
(***************************************************************************)
DeleteStatus(store, id) == IF id \notin DOMAIN store THEN 404 ELSE 204

DeleteMessage(id) ==
    LET entry == Lookup(messageStore, id) IN
    /\ messageStore' = Remove(messageStore, {id})
    /\ last' = [op |-> "delete", req |-> [id |-> id], t |-> now,
                status |-> DeleteStatus(messageStore, id),
                body |-> IF DeleteStatus(messageStore, id) = 404
                         THEN [message |-> "Message already gone"] ELSE [message |-> ""],
                pre |-> entry, dead |-> id \in tomb]
    /\ hist' = IF entry # NoEntry THEN Put(hist, id, [hist[id] EXCEPT !.gone = "delete"])
               ELSE hist
    /\ tomb' = IF entry # NoEntry THEN tomb \cup {id} ELSE tomb
    /\ UNCHANGED <<now, nextSweep, creates, reads>>

(***************************************************************************)
(* setInterval(..., 60 * 1000): the sweep                                   *)
(***************************************************************************)
\* faulty variant: the sweep clears the whole Map
SweptEverything(entry, t) == TRUE

\* a sweep that forgets the expiry and takes only the exhausted entries
SweptExhaustedOnly(entry, t) == entry.remainingViews <= 0

\* a sweep that spares the entry expiring at this very millisecond
SweptStrictly(entry, t) == entry.expiresAt < t \/ entry.remainingViews <= 0

Swept(entry, t) == entry.expiresAt <= t \/ entry.remainingViews <= 0

SweptIds(store, t) == {id \in DOMAIN store : Swept(store[id], t)}

Sweep ==
    LET out == SweptIds(messageStore, now) IN
    /\ now >= nextSweep
    /\ nextSweep' = now + SWEEP_MS
    /\ messageStore' = Remove(messageStore, out)
    /\ last' = [op |-> "sweep", req |-> [id |-> Undefined], t |-> now, status |-> 0,
                body |-> [message |-> ""], pre |-> NoEntry, dead |-> FALSE]
    /\ hist' = [id \in DOMAIN hist |->
                  IF id \in out THEN [hist[id] EXCEPT !.gone = "sweep"] ELSE hist[id]]
    /\ tomb' = tomb \cup out
    /\ UNCHANGED <<now, creates, reads, browser, env>>

\* time passes between two handlers
Tick ==
    /\ now < MaxTicks * TickMs
    /\ now' = now + TickMs
    /\ UNCHANGED <<messageStore, nextSweep, last, hist, tomb, creates, reads, browser, env>>

(***************************************************************************)
(* The requests the clients send.                                           *)
(***************************************************************************)
IdA == Str("a", 6)
IdB == Str("b", 36)
IdC == Str("c", 21)
Blob == Str("x", 64)

Request(id, encrypted, expiresInMinutes, burnAfterRead, maxViews) ==
    [ id |-> id, encrypted |-> encrypted, expiresInMinutes |-> expiresInMinutes,
      burnAfterRead |-> burnAfterRead, maxViews |-> maxViews ]

\* what the composer sends: burn after read, or a vault of 2 or of 5 views
Policies == { <<Bool(TRUE), Undefined>>, <<Bool(FALSE), Num(2)>>, <<Bool(FALSE), Num(5)>> }

\* the notes of the lifecycle specification live under one id; IdC is never created
Requests ==
    { Request(IdA, Blob, Num(1), p[1], p[2]) : p \in Policies }
    \cup { Request(Str("a", 5), Blob, Num(1), Bool(TRUE), Undefined),
           Request(IdA, Blob, Num(0), Bool(TRUE), Undefined) }

ReadIds == {IdA, IdC}

NoCall == [op |-> "none", id |-> Undefined, kind |-> "none", body |-> [message |-> ""]]

\* no MessageViewer is rendered
Unmounted == [mounted |-> FALSE, runs |-> <<>>, attempts |-> 0]

NoRequest ==
    [op |-> "none", req |-> [id |-> Undefined], t |-> 0, status |-> 0,
     body |-> [message |-> ""], pre |-> NoEntry, dead |-> FALSE]

\* the configuration with no environment variable set
Defaults == [DEFAULT_VIEWS |-> DEFAULT_VIEWS, MAX_VIEWS |-> MAX_VIEWS]

Init ==
    /\ env = Defaults
    /\ messageStore = <<>>
    /\ now = 0
    /\ nextSweep = SWEEP_MS
    /\ last = NoRequest
    /\ hist = <<>>
    /\ tomb = {}
    /\ creates = 0
    /\ reads = 0
    /\ stash = <<>>
    /\ localLast = NoCall
    /\ sent = <<>>
    /\ codec = [phase |-> "idle"]
    /\ viewer = Unmounted

Create(req) ==
    /\ creates < MaxCreates
    /\ creates' = creates + 1
    /\ PostMessage(req, 0)
    /\ UNCHANGED <<reads, browser, env>>

Read(id) ==
    /\ reads < MaxReads
    /\ reads' = reads + 1
    /\ GetMessage(id)
    /\ UNCHANGED <<creates, browser, env>>

Delete(id) == DeleteMessage(id) /\ UNCHANGED <<browser, env>>

(***************************************************************************)
(* The lifecycle of the notes under one id: any interleaving of the         *)
(* handlers, the sweep and the clock.                                       *)
(***************************************************************************)
Next ==
    \/ \E req \in Requests : Create(req)
    \/ \E id \in ReadIds : Read(id)
    \/ \E id \in ReadIds : Delete(id)
    \/ Sweep
    \/ Tick

Spec == Init /\ [][Next]_vars

(***************************************************************************)
(* One POST drawn from a wide set of request bodies, handled by a store     *)
(* that is empty or holds one note.                                         *)
(***************************************************************************)
WideIds == { IdA, IdB, Str("a", 5), Str("b", 37), Str("a", 0), Num(123456), Undefined }

WideBlobs == { Blob, Str("x", BLOB_MAX), Str("x", BLOB_MAX + 1), Str("x", 0), Null }

WideMinutes ==
    { Num(1), Fin(1), Num(5), Num(MAX_MINUTES - 1), Num(MAX_MINUTES), Num(MAX_MINUTES + 1),
      Num(0), Num(0 - 1), NaN, PosInf, Undefined, Null, Bool(TRUE), Bool(FALSE),
      Str("5", 1), Str("1", 2), Str("z", 3), Str(" ", 1) }

WideBurn == { Bool(TRUE), Bool(FALSE), Undefined }

WideViews ==
    { Undefined, Null, NaN, PosInf, Num(0 - 3), Num(0), Num(1), Num(2), Fin(2 * Q + 1),
      Num(5), Num(DEFAULT_VIEWS - 1), Num(DEFAULT_VIEWS), Num(DEFAULT_VIEWS + 1),
      Num(MAX_VIEWS - 1), Num(MAX_VIEWS), Num(MAX_VIEWS + 1), Num(1000), Str("7", 1),
      Bool(TRUE) }

WideRequests ==
    { Request(id, blob, ttl, Bool(TRUE), Undefined) :
        id \in WideIds, blob \in WideBlobs, ttl \in {Num(1), Num(0), Bool(TRUE), NaN} }
    \cup { Request(IdA, Blob, ttl, burn, views) :
        ttl \in WideMinutes, burn \in WideBurn, views \in {Undefined, Num(5)} }
    \cup { Request(IdA, Blob, ttl, burn, views) :
        ttl \in {Num(1), Num(MAX_MINUTES + 1)}, burn \in WideBurn, views \in WideViews }

SeedRequests == { Request(id, Blob, Num(1), Bool(FALSE), Num(5)) : id \in {IdA, IdB} }

Seed(req) ==
    /\ creates = 0
    /\ creates' = 1
    /\ PostMessage(req, 0)
    /\ UNCHANGED <<reads, browser, env>>

Submit(req, lag) ==
    /\ creates < MaxCreates
    /\ creates' = MaxCreates
    /\ PostMessage(req, lag)
    /\ UNCHANGED <<reads, browser, env>>

NextCreate ==
    \/ \E req \in SeedRequests : Seed(req)
    \/ \E req \in WideRequests, lag \in 0..MaxLag : Submit(req, lag)
    \/ Tick

SpecCreate == Init /\ [][NextCreate]_vars

(***************************************************************************)
(* One note read again and again until well after its views are used up.    *)
(***************************************************************************)
VaultRequests ==
    { Request(IdA, Blob, Num(1), p[1], p[2]) : p \in Policies \cup {<<Bool(FALSE), Undefined>>} }

VaultRead(id) ==
    /\ reads < MaxVaultReads
    /\ reads' = reads + 1
    /\ GetMessage(id)
    /\ UNCHANGED <<creates, browser, env>>

NextVault ==
    \/ \E req \in VaultRequests : Seed(req)
    \/ \E id \in ReadIds : VaultRead(id)
    \/ Tick

SpecVault == Init /\ [][NextVault]_vars

(***************************************************************************)
(* The store left to itself for long enough: the clock runs on to a        *)
(* horizon, the interval timer keeps firing, and a note is created only    *)
(* while its expiry and the sweep after it still lie before the horizon.   *)
(***************************************************************************)
LiveHorizon == LiveTicks * TickMs

\* the ids under which a request of this specification can store a note
LiveIds == {req.id : req \in Requests} \cap ReadIds

LiveCreate(req) ==
    /\ CreateError(req) = "" =>
           NewEntry(req, now, 0).expiresAt + SWEEP_MS <= LiveHorizon
    /\ Create(req)

LiveTick ==
    /\ now < LiveHorizon
    /\ now' = now + TickMs
    /\ UNCHANGED <<messageStore, nextSweep, last, hist, tomb, creates, reads, browser, env>>

NextLive ==
    \/ \E req \in Requests : LiveCreate(req)
    \/ \E id \in LiveIds : Read(id)
    \/ \E id \in LiveIds : Delete(id)
    \/ Sweep
    \/ LiveTick

SpecLive == Init /\ [][NextLive]_vars /\ WF_vars(LiveTick) /\ WF_vars(Sweep)

(***************************************************************************)
(* The local fallback of the message service: the same three operations on  *)
(* a record kept in localStorage.                                           *)
(***************************************************************************)
ClampViews(value) ==
    LET min == 2 * Q
        max == 50 * Q
    IN  Min2(Max2(Floor(value), min), max)

\* pruneExpired: the ids it deletes from the parsed record
Pruned(store, t) ==
    {key \in DOMAIN store :
        \/ store[key].expiresAt <= t
        \/ ~store[key].burnAfterRead /\ store[key].remainingViews <= 0}

\* readStore(): the parsed record after pruneExpired; nothing is written back
ReadStore(t) == Remove(stash, Pruned(stash, t))

LocalEntry(payload, t) ==
    [ encrypted |-> payload.encrypted,
      expiresAt |-> t + (payload.expiresInMinutes.q * 60 * 1000) \div Q,
      burnAfterRead |-> ToBoolean(payload.burnAfterRead),
      remainingViews |->
          IF ToBoolean(payload.burnAfterRead) THEN 1
          ELSE ClampViews(IF payload.maxViews.type = "number" THEN payload.maxViews.q
                          ELSE 10 * Q) \div Q ]

Outcome(op, id, kind, body) == [op |-> op, id |-> id, kind |-> kind, body |-> body]

\* persistLocal(payload), for a payload of the declared type PersistPayload
PersistLocal(payload) ==
    LET store == ReadStore(now)
        entry == LocalEntry(payload, now)
    IN  /\ stash' = Put(store, payload.id, entry)
        /\ localLast' = Outcome("create", payload.id, "success",
                                [ expiresAt |-> entry.expiresAt,
                                  remainingViews |-> IF entry.burnAfterRead THEN Null
                                                     ELSE Num(entry.remainingViews) ])

\* fetchLocal(id); both Date.now() calls of it fall into the same millisecond
FetchLocal(id) ==
    LET store == ReadStore(now)
        record == Lookup(store, id)
        remaining == Max2(0, record.remainingViews - 1)
    IN  IF record = NoEntry
        THEN /\ localLast' = Outcome("read", id, "not-found",
                                     [message |-> "Message is no longer available"])
             /\ UNCHANGED stash
        ELSE IF record.expiresAt <= now
        THEN /\ localLast' = Outcome("read", id, "expired",
                                     [message |-> "This link has expired"])
             /\ stash' = Remove(store, {id})
        ELSE IF record.burnAfterRead
        THEN /\ localLast' = Outcome("read", id, "success",
                                     [ encrypted |-> record.encrypted,
                                       expiresAt |-> record.expiresAt,
                                       remainingViews |-> Num(0) ])
             /\ stash' = Remove(store, {id})
        ELSE /\ localLast' = Outcome("read", id, "success",
                                     [ encrypted |-> record.encrypted,
                                       expiresAt |-> record.expiresAt,
                                       remainingViews |-> Num(remaining) ])
             /\ stash' = IF remaining <= 0 THEN Remove(store, {id})
                         ELSE Put(store, id, [record EXCEPT !.remainingViews = remaining])

\* deleteLocal(id)
DeleteLocal(id) ==
    LET store == ReadStore(now) IN
    /\ stash' = IF id \in DOMAIN store THEN Remove(store, {id}) ELSE stash
    /\ localLast' = Outcome("delete", id, "success", [message |-> ""])

(***************************************************************************)
(* The two backends side by side: every call goes to both, with the same    *)
(* arguments and at the same instant of the clock.                          *)
(***************************************************************************)
BackendRequests ==
    { Request(IdA, Blob, Num(1), p[1], p[2]) :
        p \in Policies \cup { <<Bool(FALSE), Num(20)>>, <<Bool(FALSE), Null>> } }
    \cup { Request(Str("a", 5), Blob, Num(1), Bool(TRUE), Undefined),
           Request(IdA, Blob, Num(MAX_MINUTES + 1), Bool(TRUE), Undefined) }

BothCreate(req) ==
    /\ creates < MaxCreates
    /\ creates' = creates + 1
    /\ PostMessage(req, 0)
    /\ PersistLocal(req)
    /\ UNCHANGED <<reads, sent, codec, viewer, env>>

BothRead(id) ==
    /\ reads < MaxReads
    /\ reads' = reads + 1
    /\ GetMessage(id)
    /\ FetchLocal(id)
    /\ UNCHANGED <<creates, sent, codec, viewer, env>>

BothDelete(id) ==
    /\ DeleteMessage(id)
    /\ DeleteLocal(id)
    /\ UNCHANGED <<sent, codec, viewer, env>>

NextBackends ==
    \/ \E req \in BackendRequests : BothCreate(req)
    \/ \E id \in ReadIds : BothRead(id)
    \/ \E id \in ReadIds : BothDelete(id)
    \/ Sweep
    \/ Tick

SpecBackends == Init /\ [][NextBackends]_vars

(***************************************************************************)
(* utils/encryption.ts: the envelope codec.  Byte arrays (WordArray) and    *)
(* the strings made from them are terms that record how they were made, so  *)
(* two of them are equal exactly when they were made the same way; every    *)
(* one carries its length.  Text(s) is the string literal s.                *)
(***************************************************************************)
MASTER_KEY_BYTES == 64
PBKDF2_ITERATIONS == 150000
SALT_BYTES == 16
IV_BYTES == 16
KEY_HEX == 64          \* hex.slice(0, 64), hex.slice(64, 128)
BLOCK_BYTES == 16      \* AES block, PKCS7 padding
MAC_BYTES == 32        \* HMAC-SHA-256 output

Text(s) == [type |-> "string", ch |-> "t", len |-> Len(s), text |-> s]

ENVELOPE_VERSION == Text("1.1.0")

WordArray(n, term) == [type |-> "bytes", size |-> n, of |-> term]

\* CryptoJS.lib.WordArray.random(n): the draw is an input of the model
RandomBytes(draw, n) == WordArray(n, [random |-> draw])

\* CryptoJS.enc.Base64.stringify
B64Stringify(w) ==
    [type |-> "string", ch |-> "=", len |-> 4 * ((w.size + 2) \div 3), b64 |-> w]

\* CryptoJS.enc.Base64.parse on a string
B64Parse(s) ==
    IF "b64" \in DOMAIN s THEN s.b64
    ELSE WordArray((s.len * 3) \div 4, [decoded |-> s])

\* a WordArray whose bytes are known
Bytes(bytes) == WordArray(Len(bytes), [bytes |-> bytes])

\* toString(CryptoJS.enc.Hex): two hex digits for each byte, high digit first
HexStringify(bytes) ==
    [i \in 1..2 * Len(bytes) |->
        IF i % 2 = 1 THEN bytes[(i + 1) \div 2] \div 16 ELSE bytes[i \div 2] % 16]

\* CryptoJS.enc.Hex.parse on an even number of hex digits
HexParse(hex) == [i \in 1..Len(hex) \div 2 |-> 16 * hex[2 * i - 1] + hex[2 * i]]

\* String.prototype.slice(from, to) for 0 <= from <= to
Slice(text, from, to) == SubSeq(text, from + 1, Min2(to, Len(text)))

\* hex.slice(from, to) of a WordArray, parsed back; for random or derived bytes
\* the result is kept as a term
HexSlice(w, from, to) ==
    IF "bytes" \in DOMAIN w.of
    THEN Bytes(HexParse(Slice(HexStringify(w.of.bytes), from, to)))
    ELSE WordArray(Max2(Min2(to \div 2, w.size) - from \div 2, 0),
                   [slice |-> <<from, to>>, from |-> w])

SplitMasterKey(masterKey) ==
    [aesKey |-> HexSlice(masterKey, 0, KEY_HEX),
     hmacKey |-> HexSlice(masterKey, KEY_HEX, 2 * KEY_HEX)]

\* faulty variant: the two halves change places
SplitDerivedKeySwapped(derived) ==
    [aesKey |-> HexSlice(derived, KEY_HEX, 2 * KEY_HEX),
     hmacKey |-> HexSlice(derived, 0, KEY_HEX)]

SplitDerivedKey(derived) ==
    [aesKey |-> HexSlice(derived, 0, KEY_HEX),
     hmacKey |-> HexSlice(derived, KEY_HEX, 2 * KEY_HEX)]

\* faulty variant: the derived key does not depend on the password
Pbkdf2IgnoresPassword(password, salt, iterations) ==
    WordArray(MASTER_KEY_BYTES, [pbkdf2 |-> Undefined, salt |-> salt, iterations |-> iterations])

\* CryptoJS.PBKDF2(password, salt, {keySize: MASTER_KEY_BYTES / 4, iterations})
Pbkdf2(password, salt, iterations) ==
    WordArray(MASTER_KEY_BYTES, [pbkdf2 |-> password, salt |-> salt, iterations |-> iterations])

DeriveKeyFromPassword(password, salt, iterations) ==
    SplitDerivedKey(Pbkdf2(password, salt, iterations))

\* CryptoJS.AES.encrypt(message, key, {iv, CBC, Pkcs7}).ciphertext
AesEncrypt(message, key, iv) ==
    WordArray(BLOCK_BYTES * (message.len \div BLOCK_BYTES + 1),
              [aes |-> message, key |-> key, iv |-> iv])

\* what .toString(CryptoJS.enc.Utf8) gives for bytes decrypted under a wrong key
\* or iv: the unpadded rubbish is empty, or no UTF-8 (an exception), or some text
Malformed == [type |-> "thrown", name |-> "Malformed UTF-8 data"]
Garbled == [type |-> "string", ch |-> "?", len |-> 1, garbled |-> TRUE]
Rubbish == {Text(""), Garbled, Malformed}

\* faulty variant: the iv of the envelope is not used
AesDecryptForgetsIv(ciphertext, key, iv) ==
    IF "aes" \in DOMAIN ciphertext.of /\ ciphertext.of.key = key
       /\ ciphertext.of.iv = WordArray(IV_BYTES, [zero |-> TRUE])
    THEN {ciphertext.of.aes} ELSE Rubbish

\* CryptoJS.AES.decrypt({ciphertext}, key, {iv, CBC, Pkcs7}).toString(Utf8)
AesDecrypt(ciphertext, key, iv) ==
    IF "aes" \in DOMAIN ciphertext.of /\ ciphertext.of.key = key /\ ciphertext.of.iv = iv
    THEN {ciphertext.of.aes} ELSE Rubbish

\* CryptoJS.AES.decrypt(payload, passphrase).toString(Utf8): the OpenSSL format
\* that CryptoJS.AES.encrypt(message, passphrase).toString() writes
PassphraseDecrypt(payload, passphrase) ==
    IF "openssl" \in DOMAIN payload /\ payload.passphrase = passphrase
    THEN {payload.openssl} ELSE Rubbish

RECURSIVE DigitsOf(_)
\* the number of decimal digits of a natural number
DigitsOf(n) == IF n < 10 THEN 1 ELSE 1 + DigitsOf(n \div 10)

\* String(v)
ToStringJS(v) ==
    CASE v.type = "string" -> v
      [] v.type = "number" ->
            IF IsFinite(v)
            THEN [type |-> "string", ch |-> "0", len |-> DigitsOf(v.q \div Q), decimal |-> v.q]
            ELSE Text(v.kind)
      [] v.type = "boolean" -> IF v.b THEN Text("true") ELSE Text("false")
      [] OTHER -> Text(v.type)

\* a ?? b
Coalesce(a, b) == IF a \in {Null, Undefined} THEN b ELSE a

\* one element of Array.prototype.join: null and undefined give the empty string
JoinElem(v) == IF v \in {Null, Undefined} THEN Text("") ELSE ToStringJS(v)

\* segments.join("|"): kept as the list of the joined texts
JoinBar(segments) == [i \in DOMAIN segments |-> JoinElem(segments[i])]

\* CryptoJS.HmacSHA256(text, key)
HmacSHA256(text, key) == WordArray(MAC_BYTES, [hmac |-> text, key |-> key])

HmacPayload(mode, ciphertext, iv, salt, createdAt) ==
    [mode |-> mode, ciphertext |-> ciphertext, iv |-> iv, salt |-> salt,
     createdAt |-> createdAt]

ComputeIntegrity(payload, key) ==
    LET segments == << payload.mode, payload.ciphertext, payload.iv,
                       Coalesce(payload.salt, Text("")),
                       ToStringJS(Coalesce(payload.createdAt, Num(0))),
                       ENVELOPE_VERSION >>
    IN  B64Stringify(HmacSHA256(JoinBar(segments), key))

\* faulty variant: only the lengths are compared
TimingSafeEqualLengthOnly(a, b) == b.type = "string" /\ a.len = b.len

\* timingSafeEqual(a, b) for a string a and a b that is not null or undefined
TimingSafeEqual(a, b) ==
    IF b.type # "string" \/ a.len # b.len THEN FALSE ELSE a = b

EnvelopeFields ==
    {"version", "mode", "ciphertext", "iv", "salt", "hmac", "iterations", "createdAt"}

\* faulty variant: the envelope records a count below the minimum
EnvelopeFewIterations(mode, ciphertext, iv, salt, hmac, createdAt) ==
    [type |-> "object", version |-> ENVELOPE_VERSION, mode |-> mode,
     ciphertext |-> ciphertext, iv |-> iv, salt |-> salt, hmac |-> hmac,
     iterations |-> Num(PBKDF2_ITERATIONS \div 2), createdAt |-> createdAt]

Envelope(mode, ciphertext, iv, salt, hmac, createdAt) ==
    [type |-> "object", version |-> ENVELOPE_VERSION, mode |-> mode,
     ciphertext |-> ciphertext, iv |-> iv, salt |-> salt, hmac |-> hmac,
     iterations |-> Num(PBKDF2_ITERATIONS), createdAt |-> createdAt]

\* the length of the JSON text of one value; an undefined field is left out
JsonValueLen(v) ==
    CASE v.type = "string" -> v.len + 2
      [] v.type = "number" -> IF IsFinite(v) THEN DigitsOf(v.q \div Q) ELSE 4
      [] v.type = "boolean" -> IF v.b THEN 4 ELSE 5
      [] v.type = "null" -> 4
      [] OTHER -> 0

\* JSON.stringify of an envelope object: a string that remembers the object
JsonStringify(object) ==
    [type |-> "string", ch |-> "{",
     len |-> 83 + JsonValueLen(object.version) + JsonValueLen(object.mode)
               + JsonValueLen(object.ciphertext) + JsonValueLen(object.iv)
               + JsonValueLen(object.salt) + JsonValueLen(object.hmac)
               + JsonValueLen(object.iterations) + JsonValueLen(object.createdAt),
     json |-> object]

Thrown == [type |-> "thrown", name |-> "SyntaxError"]

\* JSON.parse
JsonParse(payload) == IF "json" \in DOMAIN payload THEN payload.json ELSE Thrown

EncryptResult(payload, shareKey, requiresPassword, integrity) ==
    [payload |-> payload, shareKey |-> shareKey, requiresPassword |-> requiresPassword,
     integrity |-> integrity]

\* encryptMessage(message, {password}); draw holds what WordArray.random and
\* Date.now() return during the call
EncryptMessage(message, password, draw) ==
    LET iv == RandomBytes(draw.iv, IV_BYTES)
        ivBase64 == B64Stringify(iv)
        createdAt == draw.createdAt
    IN  IF ToBoolean(password)
        THEN LET saltWord == RandomBytes(draw.salt, SALT_BYTES)
                 keys == DeriveKeyFromPassword(password, saltWord, Num(PBKDF2_ITERATIONS))
                 ciphertext == B64Stringify(AesEncrypt(message, keys.aesKey, iv))
                 saltBase64 == B64Stringify(saltWord)
                 hmac == ComputeIntegrity(
                             HmacPayload(Text("password"), ciphertext, ivBase64,
                                         saltBase64, createdAt),
                             keys.hmacKey)
             IN  EncryptResult(
                     JsonStringify(Envelope(Text("password"), ciphertext, ivBase64,
                                            saltBase64, hmac, createdAt)),
                     Undefined, TRUE, hmac)
        ELSE LET masterKey == RandomBytes(draw.key, MASTER_KEY_BYTES)
                 keys == SplitMasterKey(masterKey)
                 ciphertext == B64Stringify(AesEncrypt(message, keys.aesKey, iv))
                 hmac == ComputeIntegrity(
                             HmacPayload(Text("link"), ciphertext, ivBase64, Null, createdAt),
                             keys.hmacKey)
             IN  EncryptResult(
                     JsonStringify(Envelope(Text("link"), ciphertext, ivBase64, Null,
                                            hmac, createdAt)),
                     B64Stringify(masterKey), FALSE, hmac)

\* faulty variant: the version of the parsed object is not looked at
TryParseEnvelopeAnyVersion(payload) ==
    LET parsed == JsonParse(payload) IN
    IF parsed = Thrown THEN Null
    ELSE IF parsed.type # "object" THEN Null
    ELSE IF parsed.mode # Text("link") /\ parsed.mode # Text("password") THEN Null
    ELSE parsed

\* tryParseEnvelope: the envelope, or null for anything else
TryParseEnvelope(payload) ==
    LET parsed == JsonParse(payload) IN
    IF parsed = Thrown THEN Null
    ELSE IF parsed.type # "object" THEN Null
    ELSE IF parsed.version # ENVELOPE_VERSION THEN Null
    ELSE IF parsed.mode # Text("link") /\ parsed.mode # Text("password") THEN Null
    ELSE parsed

DecryptOptions(key, password) == [key |-> key, password |-> password]

\* how a call of decryptMessage ends: the string returned or the error thrown,
\* the library primitives called on the way, and the tag recomputed, if any
Returned(value, calls, expected) ==
    [kind |-> "returned", value |-> value, calls |-> calls, expected |-> expected]
Failure(message, calls, expected) ==
    [kind |-> "error", message |-> message, calls |-> calls, expected |-> expected]

\* if (!decrypted) throw new Error(message); return decrypted
Finish(decrypted, message, calls, expected) ==
    IF decrypted = Malformed THEN Failure(Malformed.name, calls, expected)
    ELSE IF ~ToBoolean(decrypted) THEN Failure(message, calls, expected)
    ELSE Returned(decrypted, calls, expected)

\* faulty variant: the decrypted text is returned without the emptiness check
DecryptLegacyUnchecked(payload, options) ==
    IF ~ToBoolean(options.key)
    THEN {Failure("Legacy note requires a key from the link.", <<"JSON.parse">>, Undefined)}
    ELSE { IF decrypted = Malformed
           THEN Failure(Malformed.name, <<"JSON.parse", "AES.decrypt">>, Undefined)
           ELSE Returned(decrypted, <<"JSON.parse", "AES.decrypt">>, Undefined) :
             decrypted \in PassphraseDecrypt(payload, options.key) }

DecryptLegacy(payload, options) ==
    IF ~ToBoolean(options.key)
    THEN {Failure("Legacy note requires a key from the link.", <<"JSON.parse">>, Undefined)}
    ELSE { Finish(decrypted, "Unable to decrypt legacy payload with provided key.",
                  <<"JSON.parse", "AES.decrypt">>, Undefined) :
             decrypted \in PassphraseDecrypt(payload, options.key) }

\* lines 160-182: the keys, or the error thrown for a missing credential
ResolveKeys(envelope, options) ==
    IF envelope.mode = Text("password")
    THEN IF ~ToBoolean(options.password)
         THEN [error |-> "This note is protected by a password.", calls |-> <<>>]
         ELSE IF ~ToBoolean(envelope.salt)
         THEN [error |-> "Encrypted payload is missing salt information.", calls |-> <<>>]
         ELSE [error |-> "",
               keys |-> DeriveKeyFromPassword(
                            options.password, B64Parse(envelope.salt),
                            Coalesce(envelope.iterations, Num(PBKDF2_ITERATIONS))),
               calls |-> <<"Base64.parse", "PBKDF2">>]
    ELSE IF ~ToBoolean(options.key)
         THEN [error |-> "Missing secret key in link.", calls |-> <<>>]
         ELSE [error |-> "",
               keys |-> SplitMasterKey(B64Parse(options.key)),
               calls |-> <<"Base64.parse">>]

IntegrityError == "Message integrity check failed. The payload may have been altered."

\* faulty variant: the cipher runs before the tags are compared
DecryptThenCheck(envelope, keys, iv, calls) ==
    LET expected == ComputeIntegrity(
                        HmacPayload(envelope.mode, envelope.ciphertext, envelope.iv,
                                    envelope.salt, envelope.createdAt),
                        keys.hmacKey)
        done == calls \o <<"Base64.parse", "AES.decrypt", "HmacSHA256", "timingSafeEqual">>
    IN  IF envelope.hmac \in {Null, Undefined} \/ envelope.ciphertext.type # "string"
        THEN {Failure("TypeError", done, expected)}
        ELSE IF ~TimingSafeEqual(expected, envelope.hmac)
        THEN {Failure(IntegrityError, done, expected)}
        ELSE { Finish(decrypted, "Unable to decrypt with the supplied credentials.",
                      done, expected) :
                 decrypted \in AesDecrypt(B64Parse(envelope.ciphertext), keys.aesKey, iv) }

\* lines 184-213: recompute the tag, compare, and only then decrypt
CheckThenDecrypt(envelope, keys, iv, calls) ==
    LET expected == ComputeIntegrity(
                        HmacPayload(envelope.mode, envelope.ciphertext, envelope.iv,
                                    envelope.salt, envelope.createdAt),
                        keys.hmacKey)
        checked == calls \o <<"HmacSHA256", "timingSafeEqual">>
    IN  IF envelope.hmac \in {Null, Undefined}
        THEN {Failure("TypeError", checked, expected)}
        ELSE IF ~TimingSafeEqual(expected, envelope.hmac)
        THEN {Failure(IntegrityError, checked, expected)}
        ELSE IF envelope.ciphertext.type # "string"
        THEN {Failure("TypeError", checked \o <<"Base64.parse">>, expected)}
        ELSE { Finish(decrypted, "Unable to decrypt with the supplied credentials.",
                      checked \o <<"Base64.parse", "AES.decrypt">>, expected) :
                 decrypted \in AesDecrypt(B64Parse(envelope.ciphertext), keys.aesKey, iv) }

\* faulty variant: the cipher is tried first, and a key that opens nothing is
\* reported as a wrong credential before any tag is compared
DecryptVersionedTelling(envelope, options) ==
    IF envelope.iv.type # "string"
    THEN {Failure("TypeError", <<"JSON.parse", "Base64.parse">>, Undefined)}
    ELSE LET iv == B64Parse(envelope.iv)
             resolved == ResolveKeys(envelope, options)
             calls == <<"JSON.parse", "Base64.parse">> \o resolved.calls
         IN  IF resolved.error # ""
             THEN {Failure(resolved.error, <<"JSON.parse", "Base64.parse">>, Undefined)}
             ELSE IF /\ envelope.ciphertext.type = "string"
                     /\ AesDecrypt(B64Parse(envelope.ciphertext), resolved.keys.aesKey, iv)
                          = Rubbish
             THEN {Failure("Unable to decrypt with the supplied credentials.",
                           calls \o <<"Base64.parse", "AES.decrypt">>, Undefined)}
             ELSE CheckThenDecrypt(envelope, resolved.keys, iv, calls)

DecryptVersioned(envelope, options) ==
    IF envelope.iv.type # "string"
    THEN {Failure("TypeError", <<"JSON.parse", "Base64.parse">>, Undefined)}
    ELSE LET iv == B64Parse(envelope.iv)
             resolved == ResolveKeys(envelope, options)
         IN  IF resolved.error # ""
             THEN {Failure(resolved.error, <<"JSON.parse", "Base64.parse">>, Undefined)}
             ELSE CheckThenDecrypt(envelope, resolved.keys, iv,
                                   <<"JSON.parse", "Base64.parse">> \o resolved.calls)

\* decryptMessage(payload, {key, password}): the ways the call can end
DecryptMessage(payload, options) ==
    LET envelope == TryParseEnvelope(payload) IN
    IF envelope = Null THEN DecryptLegacy(payload, options)
    ELSE DecryptVersioned(envelope, options)

EnvelopeInspection(mode, version, createdAt) ==
    [mode |-> mode, version |-> version, createdAt |-> createdAt]

\* inspectEncryptedPayload(payload)
InspectEncryptedPayload(payload) ==
    LET envelope == TryParseEnvelope(payload) IN
    IF envelope = Null
    THEN EnvelopeInspection(Text("link"), Text("legacy"), Num(0))
    ELSE EnvelopeInspection(envelope.mode, envelope.version, envelope.createdAt)

(***************************************************************************)
(* components/message-composer.tsx: handleSubmit checks the form, seals the *)
(* message and hands the note to the message service.                       *)
(***************************************************************************)
MAX_EXPIRY_MINUTES == 60 * 24 * 7
MIN_CUSTOM_MINUTES == 5
MAX_VIEW_LIMIT == 50
MIN_VIEW_LIMIT == 2
PASSWORD_MIN_LENGTH == 8
MAX_MESSAGE_LENGTH == 4000

\* String.prototype.trim on a string of n copies of one character
Trim(s) == IF s.ch = " " THEN Text("") ELSE s

\* cleanMessage(raw)
CleanMessage(raw) == Trim(raw)

\* Math.round on a fixed point value
Round(q) == ((2 * q + Q) \div (2 * Q)) * Q

\* clampViewLimit(value), as a fixed point value
ClampViewLimit(value) ==
    IF ~IsFinite(value) THEN MIN_VIEW_LIMIT * Q
    ELSE Min2(Max2(Round(value.q), MIN_VIEW_LIMIT * Q), MAX_VIEW_LIMIT * Q)

\* faulty variant: the link key travels with the note
PersistPayloadWithKey(id, encryption, minutes, burnAfterRead, viewLimit) ==
    [ id |-> id, encrypted |-> encryption.payload, expiresInMinutes |-> minutes,
      burnAfterRead |-> Bool(burnAfterRead),
      maxViews |-> IF burnAfterRead THEN Undefined ELSE Fin(ClampViewLimit(viewLimit)),
      key |-> encryption.shareKey ]

\* the argument of persistMessage
PersistPayload(id, encryption, minutes, burnAfterRead, viewLimit) ==
    Request(id, encryption.payload, minutes, Bool(burnAfterRead),
            IF burnAfterRead THEN Undefined ELSE Fin(ClampViewLimit(viewLimit)))

\* the first check of handleSubmit that fails, or "" when the form passes
FormError(form) ==
    LET sanitized == CleanMessage(form.message)
        finalPassword == Trim(form.password)
        confirmation == Trim(form.confirmPassword)
        safeLimit == ClampViewLimit(form.viewLimit)
    IN  IF ~ToBoolean(sanitized) THEN "Drop a message in before encrypting."
        ELSE IF sanitized.len > MAX_MESSAGE_LENGTH
        THEN "Messages cap at 4k characters for now."
        ELSE IF form.protectWithPassword /\ finalPassword.len < PASSWORD_MIN_LENGTH
        THEN "Password needs at least 8 characters."
        ELSE IF form.protectWithPassword /\ finalPassword # confirmation
        THEN "Passwords do not match."
        ELSE IF ~form.burnAfterRead /\ safeLimit < MIN_VIEW_LIMIT * Q
        THEN "Team vault mode needs at least 2 views."
        ELSE IF ~form.burnAfterRead /\ safeLimit > MAX_VIEW_LIMIT * Q
        THEN "Vault view limits max out at 50 openings."
        ELSE IF form.expiryMode = "custom" /\ form.customMinutes = Null
        THEN "Pick a future date and time for the expiry."
        ELSE IF form.expiryMode = "custom" /\ form.customMinutes.q < MIN_CUSTOM_MINUTES * Q
        THEN "Custom expiry needs to be at least 5 minutes away."
        ELSE IF form.expiryMode = "custom" /\ form.customMinutes.q > MAX_EXPIRY_MINUTES * Q
        THEN "That schedule goes beyond our 7 day window."
        ELSE ""

\* encryptMessage(sanitized, {password: protectWithPassword ? finalPassword : undefined})
Sealed(form, draw) ==
    EncryptMessage(CleanMessage(form.message),
                   IF form.protectWithPassword THEN Trim(form.password) ELSE Undefined,
                   draw)

\* what handleSubmit passes to persistMessage for a form that passes the checks
Submitted(form, draw) ==
    PersistPayload(draw.id, Sealed(form, draw),
                   IF form.expiryMode = "custom" THEN form.customMinutes
                   ELSE form.expiryMinutes,
                   form.burnAfterRead, form.viewLimit)

\* the share link: the id, and the key when the note has one
\* faulty variant: with no key to put in the link, the password is put there
ShareLinkWithPassword(form, draw) ==
    [id |-> draw.id,
     key |-> IF ToBoolean(Sealed(form, draw).shareKey) THEN Sealed(form, draw).shareKey
             ELSE Trim(form.password)]

ShareLink(form, draw) == [id |-> draw.id, key |-> Sealed(form, draw).shareKey]

\* handleSubmit with the form as it stands; remote tells whether API_BASE_URL is set
HandleSubmit(form, draw, remote) ==
    /\ Len(sent) < MaxCreates
    /\ IF FormError(form) # ""
       THEN /\ sent' = Append(sent, [form |-> form, draw |-> draw, remote |-> remote,
                                     error |-> FormError(form)])
            /\ UNCHANGED <<messageStore, now, last, hist, creates, stash, localLast>>
       ELSE /\ sent' = Append(sent, [form |-> form, draw |-> draw, remote |-> remote,
                                     error |-> "", request |-> Submitted(form, draw),
                                     link |-> ShareLink(form, draw)])
            /\ IF remote
               THEN /\ PostMessage(Submitted(form, draw), 0)
                    /\ creates' = creates + 1
                    /\ UNCHANGED <<stash, localLast>>
               ELSE /\ PersistLocal(Submitted(form, draw))
                    /\ UNCHANGED <<messageStore, now, last, hist, creates>>
    /\ UNCHANGED <<nextSweep, tomb, reads, codec, viewer, env>>

Expiries ==
    { <<"preset", Null>>, <<"custom", Null>>, <<"custom", Num(MIN_CUSTOM_MINUTES - 1)>>,
      <<"custom", Num(60)>> }

Forms ==
    { [ message |-> message, protectWithPassword |-> protect, password |-> password,
        confirmPassword |-> confirm, burnAfterRead |-> burn, viewLimit |-> Num(80),
        expiryMode |-> expiry[1], expiryMinutes |-> Num(60), customMinutes |-> expiry[2] ] :
        message \in {Str("m", 3), Str(" ", 2), Str("m", MAX_MESSAGE_LENGTH + 1)},
        protect \in BOOLEAN,
        password \in {Str("p", PASSWORD_MIN_LENGTH), Str("p", PASSWORD_MIN_LENGTH - 1)},
        confirm \in {Str("p", PASSWORD_MIN_LENGTH), Str("p", PASSWORD_MIN_LENGTH - 1)},
        burn \in BOOLEAN, expiry \in Expiries }

\* what nanoid(21), WordArray.random and Date.now() return during one submission
FormDraws ==
    { [id |-> IdC, iv |-> "r1", salt |-> "r2", key |-> key, createdAt |-> Num(7)] :
        key \in {"r3", "r4"} }

\* the first note, and then the same form sent again with another password or
\* with another link key drawn
Compose(form, draw, remote) == sent = <<>> /\ HandleSubmit(form, draw, remote)

Recompose(password, key) ==
    /\ sent # <<>>
    /\ HandleSubmit([sent[1].form EXCEPT !.password = password, !.confirmPassword = password],
                    [sent[1].draw EXCEPT !.key = key], sent[1].remote)

NextCompose ==
    \/ \E form \in Forms, draw \in FormDraws, remote \in BOOLEAN : Compose(form, draw, remote)
    \/ \E password \in {Str("p", PASSWORD_MIN_LENGTH), Str("q", PASSWORD_MIN_LENGTH + 1)},
          key \in {"r3", "r4"} : Recompose(password, key)

SpecCompose == Init /\ [][NextCompose]_vars

(***************************************************************************)
(* One envelope on its way: sealed by encryptMessage, possibly altered in   *)
(* one field while stored, opened by decryptMessage.                        *)
(***************************************************************************)
Messages == {Text(""), Str("m", 3), Str("m", BLOCK_BYTES)}

Passwords == {Undefined, Text(""), Str("p", 8), Str("q", 8)}

Draws ==
    {[iv |-> "r1", salt |-> "r2", key |-> key, createdAt |-> Num(7)] : key \in {"r3", "r4"}}

\* the values an altered field can get
Forged(field) ==
    CASE field \in {"ciphertext", "iv", "salt"} ->
            {B64Stringify(RandomBytes("forged", IV_BYTES)), Text(""), Null}
      [] field = "hmac" ->
            {B64Stringify(RandomBytes("forged", MAC_BYTES)), Text(""), Null}
      [] field = "iterations" -> {Num(1), Null}
      [] field = "createdAt" -> {Num(8), ToStringJS(Num(7)), Null}
      [] field = "mode" -> {Text("link"), Text("password"), Text("legacy")}
      [] field = "version" -> {Text("1.0.0"), Null}

\* the credentials a viewer can hold for the sealed note
Credentials ==
    LET keys == {Undefined, B64Stringify(RandomBytes("r3", MASTER_KEY_BYTES)),
                 B64Stringify(RandomBytes("r4", MASTER_KEY_BYTES))}
    IN  {DecryptOptions(key, password) : key \in keys, password \in Passwords}

Seal(message, password, draw) ==
    /\ codec.phase = "idle"
    /\ LET result == EncryptMessage(message, password, draw) IN
       codec' = [phase |-> "sealed", message |-> message, password |-> password,
                 sealed |-> result, payload |-> result.payload,
                 touched |-> "none", forged |-> Undefined]
    /\ UNCHANGED <<messageStore, now, nextSweep, last, hist, tomb, creates, reads,
                   stash, localLast, sent, viewer, env>>

Tamper(field, value) ==
    /\ codec.phase = "sealed"
    /\ codec.touched = "none"
    /\ JsonParse(codec.payload)[field] # value
    /\ codec' = [codec EXCEPT
                   !.payload = JsonStringify([JsonParse(codec.payload) EXCEPT ![field] = value]),
                   !.touched = field, !.forged = value]
    /\ UNCHANGED <<messageStore, now, nextSweep, last, hist, tomb, creates, reads,
                   stash, localLast, sent, viewer, env>>

Open(options) ==
    /\ codec.phase = "sealed"
    /\ \E outcome \in DecryptMessage(codec.payload, options) :
          codec' = [phase |-> "opened", message |-> codec.message,
                    password |-> codec.password, sealed |-> codec.sealed,
                    payload |-> codec.payload, touched |-> codec.touched,
                    forged |-> codec.forged, options |-> options, outcome |-> outcome]
    /\ UNCHANGED <<messageStore, now, nextSweep, last, hist, tomb, creates, reads,
                   stash, localLast, sent, viewer, env>>

\* the JSON text of a value that is not an object
JsonText(value) ==
    [type |-> "string", ch |-> "j", len |-> JsonValueLen(value), json |-> value]

\* CryptoJS.AES.encrypt(message, passphrase).toString(), the format of a note
\* written before the envelope: base64 of "Salted__", the salt and the blocks
LegacyNote(message, passphrase) ==
    [type |-> "string", ch |-> "U",
     len |-> 4 * ((SALT_BYTES + BLOCK_BYTES * (message.len \div BLOCK_BYTES + 1) + 2) \div 3),
     openssl |-> message, passphrase |-> passphrase]

\* a password-mode envelope of this version written by another party, which
\* derived its keys with the iteration count it names
ForeignEnvelope(message, password, draw, iterations) ==
    LET iv == RandomBytes(draw.iv, IV_BYTES)
        saltWord == RandomBytes(draw.salt, SALT_BYTES)
        keys == DeriveKeyFromPassword(password, saltWord, iterations)
        ciphertext == B64Stringify(AesEncrypt(message, keys.aesKey, iv))
        hmac == ComputeIntegrity(
                    HmacPayload(Text("password"), ciphertext, B64Stringify(iv),
                                B64Stringify(saltWord), draw.createdAt),
                    keys.hmacKey)
    IN  JsonStringify([Envelope(Text("password"), ciphertext, B64Stringify(iv),
                                B64Stringify(saltWord), hmac, draw.createdAt)
                         EXCEPT !.iterations = iterations])

LinkKey == B64Stringify(RandomBytes("r3", MASTER_KEY_BYTES))

\* payloads a viewer can be handed that encryptMessage did not write
Received ==
    {Str("x", 64), JsonText(Null), JsonText(Num(5)), JsonText(Text("1.1.0"))}
      \cup {LegacyNote(message, LinkKey) : message \in Messages}
      \cup {ForeignEnvelope(Str("m", 3), Str("p", 8), draw, Num(1)) : draw \in Draws}

Receive(payload) ==
    /\ codec.phase = "idle"
    /\ codec' = [phase |-> "received", payload |-> payload]
    /\ UNCHANGED <<messageStore, now, nextSweep, last, hist, tomb, creates, reads,
                   stash, localLast, sent, viewer, env>>

Inspect ==
    /\ codec.phase \in {"sealed", "received"}
    /\ codec' = [phase |-> "inspected", payload |-> codec.payload,
                 inspection |-> InspectEncryptedPayload(codec.payload)]
    /\ UNCHANGED <<messageStore, now, nextSweep, last, hist, tomb, creates, reads,
                   stash, localLast, sent, viewer, env>>

Decode(options) ==
    /\ codec.phase = "received"
    /\ \E outcome \in DecryptMessage(codec.payload, options) :
          codec' = [phase |-> "decoded", payload |-> codec.payload,
                    options |-> options, outcome |-> outcome]
    /\ UNCHANGED <<messageStore, now, nextSweep, last, hist, tomb, creates, reads,
                   stash, localLast, sent, viewer, env>>

\* ---- timingSafeEqual, one loop iteration at a time ----
RECURSIVE BitXor(_, _)
\* x ^ y on non-negative integers
BitXor(x, y) ==
    IF x = 0 THEN y
    ELSE IF y = 0 THEN x
    ELSE ((x + y) % 2) + 2 * BitXor(x \div 2, y \div 2)

\* faulty variant of the accumulation: result ^= instead of result |=
XorInsteadOfOr(x, y) == BitXor(x, y)

RECURSIVE BitOr(_, _)
\* x | y on non-negative integers
BitOr(x, y) ==
    IF x = 0 THEN y
    ELSE IF y = 0 THEN x
    ELSE (IF x % 2 = 1 \/ y % 2 = 1 THEN 1 ELSE 0) + 2 * BitOr(x \div 2, y \div 2)

\* char codes of "A", "B" and "a"
CharCodes == {65, 66, 97}

\* the strings compared: sequences of char codes
CompareStrings == UNION { [1..n -> CharCodes] : n \in 0..MaxCompareLen }

\* the call: the length test, then result = 0 and index = 0
Compare(a, b) ==
    /\ codec.phase = "idle"
    /\ codec' = IF Len(a) # Len(b)
                THEN [phase |-> "compared", a |-> a, b |-> b, index |-> 0, result |-> 0,
                      returned |-> FALSE]
                ELSE [phase |-> "comparing", a |-> a, b |-> b, index |-> 0, result |-> 0]
    /\ UNCHANGED <<messageStore, now, nextSweep, last, hist, tomb, creates, reads,
                   stash, localLast, sent, viewer, env>>

\* one iteration of the for loop
CompareStep ==
    /\ codec.phase = "comparing"
    /\ codec.index < Len(codec.a)
    /\ codec' = [codec EXCEPT
                    !.result = BitOr(@, BitXor(codec.a[codec.index + 1],
                                               codec.b[codec.index + 1])),
                    !.index = @ + 1]
    /\ UNCHANGED <<messageStore, now, nextSweep, last, hist, tomb, creates, reads,
                   stash, localLast, sent, viewer, env>>

\* the loop condition fails: return result === 0
CompareReturn ==
    /\ codec.phase = "comparing"
    /\ ~(codec.index < Len(codec.a))
    /\ codec' = [phase |-> "compared", a |-> codec.a, b |-> codec.b,
                 index |-> codec.index, result |-> codec.result,
                 returned |-> (codec.result = 0)]
    /\ UNCHANGED <<messageStore, now, nextSweep, last, hist, tomb, creates, reads,
                   stash, localLast, sent, viewer, env>>

\* 64-byte secrets with known bytes: byte i is step * i + start modulo 256, so
\* with an odd step no two positions hold the same byte
Secrets64 ==
    { Bytes([i \in 1..MASTER_KEY_BYTES |-> (step * (i - 1) + start) % 256]) :
        step \in {1, 3, 5, 7, 9, 11, 13, 15, 17, 19}, start \in {0, 1, 2, 50, 100, 150,
                                                               200, 250, 254, 255, 77, 128} }

\* both splits applied to one secret
Split(secret) ==
    /\ codec.phase = "idle"
    /\ codec' = [phase |-> "split", secret |-> secret,
                 master |-> SplitMasterKey(secret), derived |-> SplitDerivedKey(secret)]
    /\ UNCHANGED <<messageStore, now, nextSweep, last, hist, tomb, creates, reads,
                   stash, localLast, sent, viewer, env>>

NextCodec ==
    \/ \E message \in Messages, password \in Passwords, draw \in Draws :
          Seal(message, password, draw)
    \/ \E field \in EnvelopeFields : \E value \in Forged(field) : Tamper(field, value)
    \/ \E options \in Credentials : Open(options)
    \/ \E payload \in Received : Receive(payload)
    \/ Inspect
    \/ \E options \in Credentials : Decode(options)
    \/ \E secret \in Secrets64 : Split(secret)
    \/ \E a, b \in CompareStrings : Compare(a, b)
    \/ CompareStep
    \/ CompareReturn

SpecCodec == Init /\ [][NextCodec]_vars

(***************************************************************************)
(* The server started under a configuration taken from the environment:     *)
(* DEFAULT_VIEWS and MAX_VIEWS are Number(process.env.X ?? default), here    *)
(* any of a few integers.                                                   *)
(***************************************************************************)
Configs ==
    {[DEFAULT_VIEWS |-> d, MAX_VIEWS |-> m] : d \in {1, DEFAULT_VIEWS, 60},
                                              m \in {0, 1, MAX_VIEWS}}

ConfigRequests ==
    { Request(IdA, Blob, Num(1), Bool(burn), maxViews) :
        burn \in BOOLEAN, maxViews \in {Undefined, Num(1), Num(5), Num(1000)} }

InitConfig ==
    /\ env \in Configs
    /\ messageStore = <<>>
    /\ now = 0
    /\ nextSweep = SWEEP_MS
    /\ last = NoRequest
    /\ hist = <<>>
    /\ tomb = {}
    /\ creates = 0
    /\ reads = 0
    /\ stash = <<>>
    /\ localLast = NoCall
    /\ sent = <<>>
    /\ codec = [phase |-> "idle"]
    /\ viewer = Unmounted

NextConfig ==
    \/ \E req \in ConfigRequests : Create(req)
    \/ Read(IdA)
    \/ Delete(IdA)

SpecConfig == InitConfig /\ [][NextConfig]_vars

(***************************************************************************)
(* components/message-viewer.tsx: MessageViewer reads the note from the API  *)
(* (fetchMessage with API_BASE_URL set) in an effect that runs on mount and   *)
(* whenever id or keyParam change, and opens it with the key of the link or   *)
(* with a password typed into its form.                                      *)
(***************************************************************************)
\* the useState values of a component just rendered with these props
Rendered(id, keyParam) ==
    [mounted |-> TRUE, id |-> id, keyParam |-> keyParam, phase |-> "idle",
     error |-> Null, noteMeta |-> Null, message |-> Text(""), passwordError |-> Null,
     runs |-> <<>>, attempts |-> 0]

\* one call of hydrate(): its closure (noteId, keyParam, cancelled), where it
\* stands, the fetchMessage calls it made and what its fetch settled to
HydrateRun(id, keyParam) ==
    [noteId |-> id, keyParam |-> keyParam, cancelled |-> FALSE, at |-> "timer",
     fetches |-> 0, cancelledAt |-> "no", settled |-> Null]

\* the effect, up to hydrate's first await: lines 60-76
Effect(view) ==
    IF ~ToBoolean(view.id)
    THEN [view EXCEPT !.phase = "error", !.error = Text("Missing note id in the URL.")]
    ELSE [view EXCEPT !.phase = "loading", !.error = Null, !.passwordError = Null,
                      !.runs = Append(@, HydrateRun(view.id, view.keyParam))]

\* the cleanup returned by the effect that ran last: cancelled = true
Cleanup(view) ==
    IF ~ToBoolean(view.id) THEN view
    ELSE [view EXCEPT !.runs[Len(view.runs)] =
            [@ EXCEPT !.cancelled = TRUE,
                      !.cancelledAt = IF @ = "no" THEN view.runs[Len(view.runs)].at ELSE @]]

\* fetchRemote(id): what the promise settles to, given the server's response
FetchRemote(response) ==
    IF response.status = 200
    THEN [kind |-> "resolved",
          payload |-> [encrypted |-> response.body.encrypted,
                       expiresAt |-> response.body.expiresAt,
                       servedBy |-> "remote",
                       remainingViews |-> IF response.body.remainingViews.type = "number"
                                          THEN response.body.remainingViews ELSE Null]]
    ELSE [kind |-> "rejected", message |-> Text(response.body.message)]

\* inspection.version === "legacy" ? "legacy" : inspection.mode
NoteMode(inspection) ==
    IF inspection.version = Text("legacy") THEN Text("legacy") ELSE inspection.mode

NoteMeta(payload) ==
    [encrypted |-> payload.encrypted, expiresAt |-> payload.expiresAt,
     servedBy |-> payload.servedBy,
     mode |-> NoteMode(InspectEncryptedPayload(payload.encrypted)),
     remainingViews |-> Coalesce(payload.remainingViews, Null)]

\* lines 106-121: the views decryptMessage with the key of the link can lead to
Unlocked(view, payload, keyParam) ==
    { IF outcome.kind = "returned"
      THEN [view EXCEPT !.message = outcome.value, !.phase = "ready"]
      ELSE [view EXCEPT !.phase = "error", !.error = Text(outcome.message)] :
        outcome \in DecryptMessage(payload.encrypted, DecryptOptions(keyParam, Undefined)) }

\* faulty variant: the cancelled flag is not looked at after the fetch
HydratedAfterCancel(view, run) ==
    IF run.settled.kind = "rejected"
    THEN {[view EXCEPT !.phase = "error", !.error = run.settled.message]}
    ELSE LET payload == run.settled.payload
             seen == [view EXCEPT !.noteMeta = NoteMeta(payload)]
         IN  IF seen.noteMeta.mode = Text("password")
             THEN {[seen EXCEPT !.phase = "awaiting-password"]}
             ELSE IF ~ToBoolean(run.keyParam)
             THEN {[seen EXCEPT !.phase = "error",
                                !.error = Text("This link is missing its secret key.")]}
             ELSE Unlocked(seen, payload, run.keyParam)

\* hydrate() from the moment its fetch settles, lines 78-129: the views it can
\* leave, all in one synchronous stretch
Hydrated(view, run) ==
    IF run.cancelled THEN {view}
    ELSE IF run.settled.kind = "rejected"
    THEN {[view EXCEPT !.phase = "error", !.error = run.settled.message]}
    ELSE LET payload == run.settled.payload
             seen == [view EXCEPT !.noteMeta = NoteMeta(payload)]
         IN  IF seen.noteMeta.mode = Text("password")
             THEN {[seen EXCEPT !.phase = "awaiting-password"]}
             ELSE IF ~ToBoolean(run.keyParam)
             THEN {[seen EXCEPT !.phase = "error",
                                !.error = Text("This link is missing its secret key.")]}
             ELSE Unlocked(seen, payload, run.keyParam)

\* faulty variant: a failed attempt ends the viewing
HandlePasswordSubmitGivesUp(view, passwordInput) ==
    IF view.noteMeta = Null THEN {view}
    ELSE IF ~ToBoolean(Trim(passwordInput))
    THEN {[view EXCEPT !.passwordError = Text("Enter the password you received.")]}
    ELSE { IF outcome.kind = "returned"
           THEN [view EXCEPT !.message = outcome.value, !.phase = "ready",
                             !.passwordError = Null]
           ELSE [view EXCEPT !.phase = "error", !.error = Text(outcome.message)] :
             outcome \in DecryptMessage(view.noteMeta.encrypted,
                                        DecryptOptions(Undefined, Trim(passwordInput))) }

\* handlePasswordSubmit with passwordInput typed into the form: the views it can leave
HandlePasswordSubmit(view, passwordInput) ==
    IF view.noteMeta = Null THEN {view}
    ELSE IF ~ToBoolean(Trim(passwordInput))
    THEN {[view EXCEPT !.passwordError = Text("Enter the password you received.")]}
    ELSE { IF outcome.kind = "returned"
           THEN [view EXCEPT !.message = outcome.value, !.phase = "ready",
                             !.passwordError = Null]
           ELSE [view EXCEPT !.passwordError = Text(outcome.message)] :
             outcome \in DecryptMessage(view.noteMeta.encrypted,
                                        DecryptOptions(Undefined, Trim(passwordInput))) }

\* the notes of the viewer scenario: the same message sealed with a key in the
\* link, sealed with a password, and written in the format before the envelope
NoteDraw == [iv |-> "r1", salt |-> "r2", key |-> "r3", createdAt |-> Num(7)]
NoteMessage == Str("m", 3)
NotePassword == Str("p", 8)
LinkNote == EncryptMessage(NoteMessage, Undefined, NoteDraw)
PasswordNote == EncryptMessage(NoteMessage, NotePassword, NoteDraw)
Notes == {LinkNote.payload, PasswordNote.payload, LegacyNote(NoteMessage, LinkKey)}

PropIds == {IdA, Undefined}
KeyParams == {Undefined, LinkKey, B64Stringify(RandomBytes("r4", MASTER_KEY_BYTES))}
PasswordInputs == {NotePassword, Str("q", 8), Str(" ", 2)}

Publish(encrypted, burnAfterRead) ==
    /\ creates = 0
    /\ creates' = 1
    /\ PostMessage(Request(IdA, encrypted, Num(1), Bool(burnAfterRead), Num(2)), 0)
    /\ UNCHANGED <<reads, browser, env>>

Mount(id, keyParam) ==
    /\ viewer = Unmounted
    /\ viewer' = Effect(Rendered(id, keyParam))
    /\ UNCHANGED <<messageStore, now, nextSweep, last, hist, tomb, creates, reads,
                   stash, localLast, sent, codec, env>>

\* the page is rendered again with another id or key: cleanup, then the effect
Rerender(id, keyParam) ==
    /\ viewer.mounted
    /\ Len(viewer.runs) < MaxRuns
    /\ <<id, keyParam>> # <<viewer.id, viewer.keyParam>>
    /\ viewer' = Effect([Cleanup(viewer) EXCEPT !.id = id, !.keyParam = keyParam])
    /\ UNCHANGED <<messageStore, now, nextSweep, last, hist, tomb, creates, reads,
                   stash, localLast, sent, codec, env>>

Unmount ==
    /\ viewer.mounted
    /\ viewer' = [Cleanup(viewer) EXCEPT !.mounted = FALSE]
    /\ UNCHANGED <<messageStore, now, nextSweep, last, hist, tomb, creates, reads,
                   stash, localLast, sent, codec, env>>

\* lines 76-77: the 360 ms timer of a run fires and the run calls fetchMessage;
\* the server handles the GET
TimerFires(i) ==
    /\ i \in DOMAIN viewer.runs
    /\ viewer.runs[i].at = "timer"
    /\ LET noteId == viewer.runs[i].noteId
           response == ReadResult(Lookup(messageStore, noteId), now)
       IN  /\ GetMessage(noteId)
           /\ viewer' = [viewer EXCEPT !.runs[i] =
                           [@ EXCEPT !.at = "fetching", !.fetches = @ + 1,
                                     !.settled = FetchRemote(response)]]
    /\ UNCHANGED <<creates, reads, stash, localLast, sent, codec, env>>

\* the fetch of a run settles and hydrate runs to its end
Settle(i) ==
    /\ i \in DOMAIN viewer.runs
    /\ viewer.runs[i].at = "fetching"
    /\ \E next \in Hydrated(viewer, viewer.runs[i]) :
          viewer' = [next EXCEPT !.runs[i].at = "done"]
    /\ UNCHANGED <<messageStore, now, nextSweep, last, hist, tomb, creates, reads,
                   stash, localLast, sent, codec, env>>

\* the password form is on the page only in the awaiting-password phase
SubmitPassword(passwordInput) ==
    /\ viewer.mounted
    /\ viewer.phase = "awaiting-password"
    /\ viewer.noteMeta # Null
    /\ viewer.attempts < MaxAttempts
    /\ \E next \in HandlePasswordSubmit(viewer, passwordInput) :
          viewer' = [next EXCEPT !.attempts = @ + 1]
    /\ UNCHANGED <<messageStore, now, nextSweep, last, hist, tomb, creates, reads,
                   stash, localLast, sent, codec, env>>

NextViewer ==
    \/ \E encrypted \in Notes, burnAfterRead \in BOOLEAN : Publish(encrypted, burnAfterRead)
    \/ \E id \in PropIds, keyParam \in KeyParams : Mount(id, keyParam)
    \/ \E id \in PropIds, keyParam \in KeyParams : Rerender(id, keyParam)
    \/ Unmount
    \/ \E i \in 1..MaxRuns : TimerFires(i)
    \/ \E i \in 1..MaxRuns : Settle(i)
    \/ \E passwordInput \in PasswordInputs : SubmitPassword(passwordInput)

SpecViewer == Init /\ [][NextViewer]_vars

(***************************************************************************)
(* Properties.                                                              *)
(***************************************************************************)
Statuses(h) == [i \in 1..Len(h.reads) |-> h.reads[i].status]

\* every logged read of the entry came before its expiry, and no DELETE removed it
Undisturbed(h) == h.gone # "delete" /\ \A i \in 1..Len(h.reads) : ~h.reads[i].late

\* C1: a vault entry of budget N read k times, before its expiry and with no
\* create or delete of its id in between, serves the blob on the first min(N, k)
\* reads, reporting N-1, N-2, ... remaining views, and answers 404 to the others.
C1_VaultBudget ==
    \A id \in DOMAIN hist :
        LET h == hist[id] IN
        (~h.burn /\ Undisturbed(h)) =>
            \A i \in 1..Len(h.reads) :
                IF i <= h.budget
                THEN /\ h.reads[i].status = 200
                     /\ h.reads[i].remainingViews = Num(h.budget - i)
                ELSE h.reads[i].status = 404

C1_Witness ==
    \E id \in DOMAIN hist :
        /\ ~hist[id].burn /\ Undisturbed(hist[id])
        /\ hist[id].budget = 2
        /\ Statuses(hist[id]) = <<200, 200, 404>>

\* C2: a burn-after-read entry read N >= 2 times, before its expiry and with no
\* create or delete of its id in between, serves the blob to exactly one read, and
\* answers 404 to the N-1 others.
C2_BurnOnce ==
    \A id \in DOMAIN hist :
        LET h == hist[id] IN
        (h.burn /\ Undisturbed(h) /\ Len(h.reads) >= 2) =>
            /\ Cardinality({i \in 1..Len(h.reads) : h.reads[i].status = 200}) = 1
            /\ Cardinality({i \in 1..Len(h.reads) : h.reads[i].status = 404})
                  = Len(h.reads) - 1

C2_Witness ==
    \E id \in DOMAIN hist :
        /\ hist[id].burn /\ Undisturbed(hist[id])
        /\ Len(hist[id].reads) >= 3

\* C3: a read that finds an entry whose expiresAt is at or before the current time
\* answers 410 and deletes the entry, whatever views remain; a read that serves
\* a blob found an entry that had not expired.
C3_ExpiredNeverServed ==
    last.op = "read" =>
        /\ (last.pre # NoEntry /\ last.pre.expiresAt <= last.t) =>
              (last.status = 410 /\ last.req.id \notin DOMAIN messageStore)
        /\ last.status = 200 => (last.pre # NoEntry /\ last.pre.expiresAt > last.t)

C3_Witness ==
    /\ last.op = "read"
    /\ last.pre # NoEntry
    /\ last.pre.expiresAt <= last.t
    /\ last.pre.remainingViews >= 2
    /\ last.status = 410

\* the entry was created with ttlMinutes = 1 and no read came before its expiry
OneMinuteUnread(h) ==
    /\ h.ttl = Num(1)
    /\ h.reads # <<>>
    /\ \A i \in 1..Len(h.reads) : h.reads[i].late

\* C4 as stated: for an entry created with ttlMinutes = 1, not read before its
\* expiry and not removed by a DELETE, the first read after more than one minute
\* has elapsed answers 410 and every later read answers 404.
C4_FirstLateReadGone ==
    \A id \in DOMAIN hist :
        LET h == hist[id] IN
        (OneMinuteUnread(h) /\ h.reads[1].over /\ h.gone # "delete") =>
            /\ h.reads[1].status = 410
            /\ \A i \in 2..Len(h.reads) : h.reads[i].status = 404

\* C4 amended: for an entry created with ttlMinutes = 1 and not read before its
\* expiry, no read at or after the expiry returns the blob; the first such read
\* answers 410 when the entry is still in the store, and 404 when the sweep or a
\* DELETE has already removed it; every later read answers 404.
C4_LateReads ==
    \A id \in DOMAIN hist :
        LET h == hist[id] IN
        OneMinuteUnread(h) =>
            /\ h.gone \in {"expired", "sweep", "delete"}
            /\ h.reads[1].status = IF h.gone = "expired" THEN 410 ELSE 404
            /\ \A i \in 2..Len(h.reads) : h.reads[i].status = 404

C4_Witness ==
    \E id \in DOMAIN hist :
        /\ OneMinuteUnread(hist[id])
        /\ hist[id].reads[1].over
        /\ Statuses(hist[id]) = <<410, 404>>

\* C5 as stated: a read never returns a blob for an id an entry of which has been
\* deleted from the store.
C5_NoResurrection == (last.op = "read" /\ last.status = 200) => ~last.dead

\* C6: after create(burnAfterRead=false, maxViews=5), with nothing but reads before the
\* expiry, the 1st to 5th reads return the blob with 4, 3, 2, 1, 0 remaining views, in
\* that order, and the 6th read answers 404.
C6_VaultOfFive ==
    \A id \in DOMAIN hist :
        LET h == hist[id] IN
        (~h.burn /\ h.maxViews = Num(5) /\ Undisturbed(h)) =>
            \A i \in 1..Len(h.reads) :
                h.reads[i] = [ status |-> IF i <= 5 THEN 200 ELSE 404,
                               remainingViews |-> IF i <= 5 THEN Num(5 - i) ELSE Null,
                               late |-> FALSE, over |-> FALSE ]

C6_Witness ==
    \E id \in DOMAIN hist :
        /\ ~hist[id].burn /\ hist[id].maxViews = Num(5) /\ Undisturbed(hist[id])
        /\ Statuses(hist[id]) = <<200, 200, 200, 200, 200, 404>>
        /\ hist[id].reads[5].remainingViews = Num(0)

Clamp(x, lo, hi) == Min2(Max2(x, lo), hi)

Accepted == last.op = "create" /\ last.status = 201

VaultAccepted == Accepted /\ ~ToBoolean(last.req.burnAfterRead)

\* C7 as stated: for every finite number maxViews of an accepted vault create, the
\* stored and the returned remainingViews are clamp(floor(maxViews), 2, MAX_VIEWS).
C7_ClampToMaxViews ==
    (VaultAccepted /\ IsFinite(last.req.maxViews)) =>
        LET want == Clamp(last.req.maxViews.q \div Q, 2, MAX_VIEWS) IN
        /\ messageStore[last.req.id].remainingViews = want
        /\ last.body.remainingViews = Num(want)

\* C8 as stated: an accepted vault create whose maxViews is undefined or null stores
\* and returns DEFAULT_VIEWS clamped to [2, MAX_VIEWS].
C8_DefaultViews ==
    (VaultAccepted /\ last.req.maxViews \in {Undefined, Null}) =>
        LET want == Clamp(DEFAULT_VIEWS, 2, MAX_VIEWS) IN
        /\ messageStore[last.req.id].remainingViews = want
        /\ last.body.remainingViews = Num(want)

\* the three conditions of C9, on the request body as sent
BadId(id) == ~(id.type = "string" /\ id.len >= 6 /\ id.len <= 36)
BadBlob(blob) == ~(blob.type = "string" /\ blob.len >= 1 /\ blob.len <= 20000)
NotPositiveNumber(ttl) == ~(ttl.type = "number" /\ ttl.kind = "finite" /\ ttl.q > 0)
NotPositiveAsNumber(ttl) ==
    ~(ToNumber(ttl).kind = "finite" /\ ToNumber(ttl).q > 0)

\* what a POST of the request may do: reject it and leave the store as it was, or
\* put exactly one entry, under the request's id
Rejects == last'.status = 400 /\ messageStore' = messageStore
Inserts ==
    /\ last'.status = 201
    /\ DOMAIN messageStore' = DOMAIN messageStore \cup {last'.req.id}
    /\ \A k \in DOMAIN messageStore \ {last'.req.id} : messageStore'[k] = messageStore[k]

C10_ExpiresAt ==
    Accepted =>
        LET m == ToNumber(last.req.expiresInMinutes).q
            ms == IF m <= MAX_MINUTES * Q THEN (m * 60000) \div Q ELSE MAX_MINUTES * 60000
            entry == messageStore[last.req.id]
        IN  /\ entry.expiresAt = last.t + ms
            /\ last.body.expiresAt = last.t + ms
            /\ entry.expiresAt - entry.createdAt <= MAX_MINUTES * 60000

C10_Witness ==
    /\ Accepted
    /\ last.req.expiresInMinutes = Num(MAX_MINUTES + 1)
    /\ last.t > 0
    /\ messageStore[last.req.id].expiresAt = last.t + MAX_MINUTES * 60000

\* C11: a DELETE reports success whether or not the id is in the store (also for an
\* id that is unknown or already deleted), and after it the id is absent.
C11_DeleteSucceeds ==
    last.op = "delete" =>
        /\ last.status \in 200..299
        /\ last.req.id \notin DOMAIN messageStore

\* C12: right after a run of the sweep at time t the store holds no entry with
\* expiresAt <= t and no entry with remainingViews <= 0.
C12_SweepLeavesLive ==
    last.op = "sweep" =>
        \A id \in DOMAIN messageStore :
            /\ messageStore[id].expiresAt > last.t
            /\ messageStore[id].remainingViews > 0

\* a sweep at the very millisecond of expiry took the entry no reader had fetched
C12_Witness ==
    /\ last.op = "sweep"
    /\ IdA \in DOMAIN hist
    /\ hist[IdA].gone = "sweep"
    /\ hist[IdA].expiresAt = last.t
    /\ IdA \notin DOMAIN messageStore

\* C13: with the clock advancing and the sweep firing again and again, every entry
\* in the store is eventually removed, also when nobody reads or deletes it: each
\* state where an id is stored is followed by a state where it is absent.
C13_EventuallyRemoved ==
    \A id \in LiveIds :
        (id \in DOMAIN messageStore) ~> (id \notin DOMAIN messageStore)

\* an entry that no GET and no DELETE ever touched, taken by the sweep after its expiry
C13_Witness ==
    /\ reads = 0
    /\ IdA \in DOMAIN hist
    /\ hist[IdA].reads = <<>>
    /\ hist[IdA].gone = "sweep"
    /\ now > hist[IdA].expiresAt
    /\ messageStore = <<>>

\* the notes the composer handed to the store
Persisted == {i \in DOMAIN sent : sent[i].error = ""}

\* the secrets of a submission: the password, the link key and the key material,
\* as byte arrays and as Base64 strings
Secrets(s) ==
    LET password == Trim(s.form.password)
        masterKey == RandomBytes(s.draw.key, MASTER_KEY_BYTES)
        derived == Pbkdf2(password, RandomBytes(s.draw.salt, SALT_BYTES),
                          Num(PBKDF2_ITERATIONS))
        bytes == { masterKey, SplitMasterKey(masterKey).aesKey,
                   SplitMasterKey(masterKey).hmacKey, derived,
                   SplitDerivedKey(derived).aesKey, SplitDerivedKey(derived).hmacKey }
    IN  bytes \cup {B64Stringify(w) : w \in bytes}
              \cup (IF s.form.protectWithPassword THEN {s.form.password, password} ELSE {})

\* the values a store request carries: its fields and the fields of its envelope,
\* the Base64 ones also decoded
Carried(request) ==
    LET envelope == JsonParse(request.encrypted)
        values == {request[f] : f \in DOMAIN request}
                  \cup {envelope[f] : f \in EnvelopeFields}
    IN  values \cup {B64Parse(v) : v \in {x \in values : x.type = "string"}}

\* what the backend of a submission holds under the id of the note
Held(s) ==
    IF s.remote THEN Lookup(messageStore, s.request.id) ELSE Lookup(stash, s.request.id)

NonBlob(request) == [f \in DOMAIN request \ {"encrypted"} |-> request[f]]

\* the two submissions differ at most in the password and in the link key drawn
SameButSecret(s, t) ==
    /\ [s.form EXCEPT !.password = Null, !.confirmPassword = Null]
         = [t.form EXCEPT !.password = Null, !.confirmPassword = Null]
    /\ [s.draw EXCEPT !.key = ""] = [t.draw EXCEPT !.key = ""]
    /\ s.remote = t.remote

\* C14: what the composer sends to the store, and what the store holds, is the id,
\* the serialized envelope, the ttl, the burn flag and the view limit, and none of
\* it is the password, the link key or key material; two submissions that differ
\* only in the password or the link key send the same non-blob fields.
C14_NoSecretReachesStore ==
    /\ \A i \in Persisted :
          /\ DOMAIN sent[i].request =
                {"id", "encrypted", "expiresInMinutes", "burnAfterRead", "maxViews"}
          /\ TryParseEnvelope(sent[i].request.encrypted) # Null
          /\ Carried(sent[i].request) \cap Secrets(sent[i]) = {}
    /\ \A i \in Persisted : i = Len(sent) =>
          /\ Held(sent[i]) # NoEntry
          /\ Held(sent[i]).encrypted = sent[i].request.encrypted
          /\ DOMAIN Held(sent[i]) \subseteq
                {"encrypted", "expiresAt", "burnAfterRead", "remainingViews", "createdAt"}
    /\ \A i, j \in Persisted :
          SameButSecret(sent[i], sent[j]) =>
              NonBlob(sent[i].request) = NonBlob(sent[j].request)

\* two password notes, the same but for the password, reached the server: their
\* blobs differ and nothing else does
C14_Witness ==
    /\ Persisted = {1, 2}
    /\ sent[1].remote /\ sent[1].form.protectWithPassword
    /\ sent[1].form.password # sent[2].form.password
    /\ sent[1].request.encrypted # sent[2].request.encrypted
    /\ NonBlob(sent[1].request) = NonBlob(sent[2].request)
    /\ sent[2].link.key = Undefined

\* the outcome kind of a response of the server store
KindOf(status) ==
    CASE status \in 200..299 -> "success"
      [] status = 404 -> "not-found"
      [] status = 410 -> "expired"
      [] status = 400 -> "validation failure"
      [] OTHER -> "none"

\* expiresAt and remainingViews as a response body reports them
Reported(body) ==
    IF "expiresAt" \in DOMAIN body THEN <<body.expiresAt, body.remainingViews>> ELSE <<>>

\* C15: after every create, read or delete made on both backends with the same
\* arguments at the same clock, the server store and the local fallback report the
\* same outcome kind and the same expiresAt and remainingViews.
C15_BackendsAgree ==
    (last.op \in {"create", "read", "delete"} /\ localLast.op = last.op) =>
        /\ KindOf(last.status) = localLast.kind
        /\ Reported(last.body) = Reported(localLast.body)

\* the envelope the opened payload parses to, or null
Opened == codec.phase = "opened"
OpenedEnvelope == TryParseEnvelope(codec.payload)
PasswordMode == codec.sealed.requiresPassword

\* the viewer holds the credential the note was sealed with: the shareKey in link
\* mode, the password in password mode
Matching ==
    IF PasswordMode THEN codec.options.password = codec.password
    ELSE codec.options.key = codec.sealed.shareKey

ReturnsMessage == codec.outcome.kind = "returned" /\ codec.outcome.value = codec.message
FailsWith(message) == codec.outcome.kind = "error" /\ codec.outcome.message = message

\* C16: for every message, the empty string included, and for both modes, opening
\* the payload of encryptMessage with the matching credential returns the message.
C16_RoundTrip ==
    (Opened /\ codec.touched = "none" /\ Matching) => ReturnsMessage

\* C16 amended: for every non-empty message and for both modes, opening the payload
\* of encryptMessage with the matching credential returns exactly the message; for
\* the empty message the call throws "Unable to decrypt with the supplied
\* credentials."
C16_RoundTripNonEmpty ==
    (Opened /\ codec.touched = "none" /\ Matching) =>
        IF codec.message.len > 0 THEN ReturnsMessage
        ELSE FailsWith("Unable to decrypt with the supplied credentials.")

C16_Witness ==
    /\ Opened /\ codec.touched = "none" /\ Matching /\ PasswordMode
    /\ codec.message = Str("m", BLOCK_BYTES)
    /\ ReturnsMessage
    /\ "PBKDF2" \in {codec.outcome.calls[i] : i \in DOMAIN codec.outcome.calls}

C18_EveryFieldBound ==
    ( /\ Opened /\ Matching
      /\ codec.touched \in {"mode", "ciphertext", "iv", "salt", "iterations",
                            "createdAt", "version"} ) =>
        ~ReturnsMessage

\* the primitives a call of decryptMessage used
Called == {codec.outcome.calls[i] : i \in DOMAIN codec.outcome.calls}

MissingCredential(message) ==
    /\ FailsWith(message)
    /\ Called \cap {"PBKDF2", "HmacSHA256", "timingSafeEqual", "AES.decrypt"} = {}
    /\ codec.outcome.expected = Undefined

\* C19: opening a sealed password-mode envelope with another password fails with
\* the integrity error; opening a link-mode envelope with no key, or a password-mode
\* envelope with no password (none or the empty string), fails with the error for
\* the missing credential before any key is derived and any tag computed.
C19_WrongOrMissingCredential ==
    (Opened /\ codec.touched = "none") =>
        /\ ( PasswordMode /\ ToBoolean(codec.options.password)
                          /\ codec.options.password # codec.password )
              => FailsWith(IntegrityError)
        /\ (PasswordMode /\ ~ToBoolean(codec.options.password))
              => MissingCredential("This note is protected by a password.")
        /\ (~PasswordMode /\ ~ToBoolean(codec.options.key))
              => MissingCredential("Missing secret key in link.")

C19_Witness ==
    /\ Opened /\ codec.touched = "none" /\ PasswordMode
    /\ codec.password = Str("p", 8)
    /\ codec.options.password = Str("q", 8)
    /\ FailsWith(IntegrityError)
    /\ "PBKDF2" \in Called

\* the call named first comes before the call named second in the list
Before(calls, first, second) ==
    \E i, j \in DOMAIN calls : i < j /\ calls[i] = first /\ calls[j] = second

\* C20: when decryptMessage opens a versioned envelope, the cipher's decrypt runs
\* only after the recomputed tag was compared and found equal to the stored tag;
\* when the two tags differ it never runs.
C20_CheckBeforeDecrypt ==
    (Opened /\ OpenedEnvelope # Null /\ "AES.decrypt" \in Called) =>
        /\ codec.outcome.expected = OpenedEnvelope.hmac
        /\ Before(codec.outcome.calls, "timingSafeEqual", "AES.decrypt")

\* a forged tag of the right length: the tags differ and the cipher is not run
C20_Witness ==
    /\ Opened /\ Matching /\ OpenedEnvelope # Null
    /\ codec.touched = "hmac"
    /\ codec.forged.type = "string" /\ codec.forged.len = codec.outcome.expected.len
    /\ codec.outcome.expected # OpenedEnvelope.hmac
    /\ "timingSafeEqual" \in Called
    /\ "AES.decrypt" \notin Called

\* ---- inspectEncryptedPayload ----
Inspected == codec.phase = "inspected"

\* the four cases of the claim, read off the payload text itself
NotJson(payload) == "json" \notin DOMAIN payload
NotObject(payload) == ~NotJson(payload) /\ payload.json.type # "object"
ForeignVersion(payload) ==
    ~NotJson(payload) /\ ~NotObject(payload) /\ payload.json.version # ENVELOPE_VERSION
UnknownMode(payload) ==
    ~NotJson(payload) /\ ~NotObject(payload)
      /\ payload.json.mode \notin {Text("link"), Text("password")}

\* C21: inspectEncryptedPayload always returns a value; for a payload that is
\* not JSON, not an object, of another version or of an unknown mode the value
\* is {mode: "link", version: "legacy", createdAt: 0}, and for every other
\* payload it is the envelope's own mode, version and createdAt.
C21_InspectNeverThrows ==
    Inspected =>
        IF NotJson(codec.payload) \/ NotObject(codec.payload)
             \/ ForeignVersion(codec.payload) \/ UnknownMode(codec.payload)
        THEN codec.inspection = [mode |-> Text("link"), version |-> Text("legacy"),
                                 createdAt |-> Num(0)]
        ELSE codec.inspection = [mode |-> codec.payload.json.mode,
                                 version |-> codec.payload.json.version,
                                 createdAt |-> codec.payload.json.createdAt]

C21_Witness ==
    /\ Inspected
    /\ ForeignVersion(codec.payload)
    /\ codec.inspection.version = Text("legacy")
\* ---- encryptMessage: the result ----
HasResult == "sealed" \in DOMAIN codec
ResultEnvelope == JsonParse(codec.sealed.payload)
PasswordGiven == ToBoolean(codec.password)

\* C22: every result of encryptMessage is a well-formed envelope of this
\* version; with a (non-empty) password it has mode password, a string salt,
\* iterations >= 150000, requiresPassword true and no shareKey; without one it
\* has mode link, salt null, requiresPassword false and a shareKey; the
\* integrity returned is the envelope's hmac.
C22_ResultInvariants ==
    HasResult =>
        /\ TryParseEnvelope(codec.sealed.payload) = ResultEnvelope
        /\ codec.sealed.integrity = ResultEnvelope.hmac
        /\ IF PasswordGiven
           THEN /\ ResultEnvelope.mode = Text("password")
                /\ ResultEnvelope.salt.type = "string"
                /\ ResultEnvelope.salt.len > 0
                /\ IsFinite(ResultEnvelope.iterations)
                /\ ResultEnvelope.iterations.q >= 150000 * Q
                /\ codec.sealed.requiresPassword = TRUE
                /\ codec.sealed.shareKey = Undefined
           ELSE /\ ResultEnvelope.mode = Text("link")
                /\ ResultEnvelope.salt = Null
                /\ codec.sealed.requiresPassword = FALSE
                /\ codec.sealed.shareKey.type = "string"
                /\ codec.sealed.shareKey.len > 0

C22_Witness ==
    /\ HasResult
    /\ codec.phase = "sealed"
    /\ codec.touched = "none"
    /\ PasswordGiven
    /\ ResultEnvelope.iterations = Num(PBKDF2_ITERATIONS)
\* ---- decryptMessage: the iteration count of a password-mode envelope ----
Decrypted == codec.phase \in {"opened", "decoded"}
GivenEnvelope == TryParseEnvelope(codec.payload)

BelowMinimum(iterations) ==
    iterations.type = "number" /\ IsFinite(iterations) /\ iterations.q < 150000 * Q

\* C23: a payload of this version with mode password whose iterations are below
\* 150,000, or whose salt is null, never has a key derived from it by PBKDF2 and
\* never yields a plaintext.
C23_NoWeakDerivation ==
    (Decrypted /\ GivenEnvelope # Null /\ GivenEnvelope.mode = Text("password")
       /\ (BelowMinimum(GivenEnvelope.iterations) \/ GivenEnvelope.salt = Null))
    => (codec.outcome.kind = "error" /\ "PBKDF2" \notin Called)
\* ---- GET: what a read that serves the blob reports and leaves ----
Served == last.op = "read" /\ last.status = 200

\* C24: a read answered with the blob returns the stored blob and expiresAt; for
\* a burn-after-read entry it reports remainingViews 0 and the entry is gone; for
\* a vault entry it reports the stored count minus 1, the entry is gone exactly
\* when that count is 0, and otherwise it is kept with only the count changed.
C24_ReadReportsAndLeaves ==
    Served =>
        LET id == last.req.id
            entry == last.pre
        IN  /\ last.body.encrypted = entry.encrypted
            /\ last.body.expiresAt = entry.expiresAt
            /\ IF entry.burnAfterRead
               THEN /\ last.body.remainingViews = Num(0)
                    /\ id \notin DOMAIN messageStore
               ELSE /\ last.body.remainingViews = Num(entry.remainingViews - 1)
                    /\ id \notin DOMAIN messageStore <=> entry.remainingViews - 1 = 0
                    /\ id \in DOMAIN messageStore =>
                          messageStore[id] =
                            [entry EXCEPT !.remainingViews = entry.remainingViews - 1]

C24_Witness ==
    /\ Served
    /\ ~last.pre.burnAfterRead
    /\ last.pre.remainingViews = 1
    /\ last.body.remainingViews = Num(0)
    /\ last.req.id \notin DOMAIN messageStore
\* ---- the fields of a stored entry ----
ServedTo(id) == last'.op = "read" /\ last'.status = 200 /\ last'.req.id = id

\* C25: while an id stays in the Map, the blob, expiresAt and burnAfterRead of
\* its entry do not change, and remainingViews changes only by going down by
\* exactly 1 in a read of that id that returns the blob; no other step, a
\* create included, alters the entry.
C25_EntryFrame ==
    [][\A id \in DOMAIN messageStore \cap DOMAIN messageStore' :
          LET old == messageStore[id]
              new == messageStore'[id]
          IN  /\ new.encrypted = old.encrypted
              /\ new.expiresAt = old.expiresAt
              /\ new.burnAfterRead = old.burnAfterRead
              /\ \/ new.remainingViews = old.remainingViews
                 \/ new.remainingViews = old.remainingViews - 1 /\ ServedTo(id)]_vars
\* ---- the view count of a stored entry, under every configuration ----
\* C26: between handlers, every stored burn-after-read entry has remainingViews
\* 1 and every other stored entry has remainingViews in [1, MAX_VIEWS], whatever
\* DEFAULT_VIEWS and MAX_VIEWS the server was started with.
C26_ViewsWithinConfiguredRange ==
    \A id \in DOMAIN messageStore :
        IF messageStore[id].burnAfterRead
        THEN messageStore[id].remainingViews = 1
        ELSE /\ messageStore[id].remainingViews >= 1
             /\ messageStore[id].remainingViews <= env.MAX_VIEWS
\* ---- decryptMessage: what a tag mismatch tells the caller ----
\* what the caller of decryptMessage gets: the string, or the error thrown
Visible(outcome) ==
    IF outcome.kind = "returned" THEN [kind |-> "returned", value |-> outcome.value]
    ELSE [kind |-> "error", message |-> outcome.message]

\* the tag recomputed in the call differs from the tag the payload carries
TagMismatch ==
    /\ GivenEnvelope # Null
    /\ codec.outcome.expected # Undefined
    /\ GivenEnvelope.hmac.type = "string"
    /\ GivenEnvelope.hmac # codec.outcome.expected

\* a credential of the kind the sealed note asks for, but another one
WrongCredentials ==
    { options \in Credentials :
        IF PasswordMode
        THEN ToBoolean(options.password) /\ options.password # codec.password
        ELSE ToBoolean(options.key) /\ options.key # codec.sealed.shareKey }

\* C27: when an altered payload opened with the right credential ends in a tag
\* mismatch, the caller gets exactly what every call on the unaltered payload
\* with a wrong credential gives: the same error, so the two cannot be told apart.
C27_MismatchIndistinguishable ==
    (Opened /\ codec.touched # "none" /\ Matching /\ TagMismatch) =>
        \A options \in WrongCredentials :
          \A other \in DecryptMessage(codec.sealed.payload, options) :
             Visible(other) = Visible(codec.outcome)

C27_Witness ==
    /\ Opened /\ codec.touched = "hmac" /\ Matching /\ TagMismatch
    /\ WrongCredentials # {}
    /\ FailsWith(IntegrityError)
    /\ \A options \in WrongCredentials :
         \A other \in DecryptMessage(codec.sealed.payload, options) :
            other.kind = "error" /\ other.expected # JsonParse(codec.sealed.payload).hmac
\* ---- decryptMessage: a payload that is no envelope of this version ----
Ciphers == {"AES.decrypt", "PBKDF2"}
TagChecks == {"HmacSHA256", "timingSafeEqual"}

\* C28: for a payload that is not a well-formed envelope of this version,
\* decryptMessage without a key fails before any cipher is called; with a key it
\* calls the passphrase decrypt and no tag check, fails when the result is empty
\* or no UTF-8 text, and returns nothing but a non-empty string.
C28_LegacyNeedsKey ==
    (Decrypted /\ GivenEnvelope = Null) =>
        /\ Called \cap TagChecks = {}
        /\ codec.outcome.expected = Undefined
        /\ IF ~ToBoolean(codec.options.key)
           THEN /\ FailsWith("Legacy note requires a key from the link.")
                /\ Called \cap Ciphers = {}
           ELSE /\ "AES.decrypt" \in Called
                /\ "PBKDF2" \notin Called
                /\ codec.outcome.kind = "returned" =>
                      /\ codec.outcome.value.type = "string"
                      /\ codec.outcome.value.len > 0
                      /\ codec.outcome.value
                            \in PassphraseDecrypt(codec.payload, codec.options.key)
                /\ codec.outcome.kind = "error" =>
                      codec.outcome.message \in
                        {"Unable to decrypt legacy payload with provided key.",
                         Malformed.name}
                /\ PassphraseDecrypt(codec.payload, codec.options.key) = {Text("")} =>
                      FailsWith("Unable to decrypt legacy payload with provided key.")

C28_Witness ==
    /\ codec.phase = "decoded"
    /\ GivenEnvelope = Null
    /\ "openssl" \in DOMAIN codec.payload
    /\ codec.payload.openssl = Text("")
    /\ codec.options.key = codec.payload.passphrase
    /\ FailsWith("Unable to decrypt legacy payload with provided key.")
\* ---- POST: what an accepted create reports ----
\* C29: an accepted create answers with the expiresAt of the entry it stored and
\* with remainingViews null when the stored entry is burn-after-read, and
\* otherwise with exactly the remainingViews it stored.
C29_CreateReportsStored ==
    Accepted =>
        /\ last.req.id \in DOMAIN messageStore
        /\ LET stored == messageStore[last.req.id] IN
           /\ last.body.expiresAt = stored.expiresAt
           /\ IF stored.burnAfterRead
              THEN last.body.remainingViews = Null
              ELSE last.body.remainingViews = Num(stored.remainingViews)

C29_Witness ==
    /\ Accepted
    /\ last.req.maxViews = Num(1000)
    /\ ~messageStore[last.req.id].burnAfterRead
    /\ last.body.remainingViews = Num(messageStore[last.req.id].remainingViews)
    /\ last.body.remainingViews # last.req.maxViews
\* ---- README.md: the iteration count of password-protected notes ----
\* "derives a key with PBKDF2 (310k iterations)"
DOCUMENTED_ITERATIONS == 310000

\* the key material the envelope of a password-protected note was sealed under
DocumentedKeys ==
    DeriveKeyFromPassword(codec.password, B64Parse(ResultEnvelope.salt),
                          Num(DOCUMENTED_ITERATIONS))

\* C30: every password-mode envelope written by encryptMessage records
\* iterations = 310000, and its tag is made with the key PBKDF2 derives from the
\* password and the salt with that count.
C30_DocumentedIterations ==
    (HasResult /\ PasswordGiven) =>
        /\ ResultEnvelope.iterations = Num(DOCUMENTED_ITERATIONS)
        /\ ResultEnvelope.hmac =
              ComputeIntegrity(
                  HmacPayload(ResultEnvelope.mode, ResultEnvelope.ciphertext,
                              ResultEnvelope.iv, ResultEnvelope.salt,
                              ResultEnvelope.createdAt),
                  DocumentedKeys.hmacKey)
\* ---- the sweep among the handlers ----
LiveAt(entry, t) == entry.expiresAt > t /\ entry.remainingViews >= 1

\* C31: a run of the sweep, wherever it falls among the reads, creates and
\* deletes, adds nothing, takes out only entries that are expired or exhausted,
\* leaves every unexpired entry with remainingViews >= 1 exactly as it was, and
\* so leaves the answer to every read that would have returned a blob, now or
\* one clock advance later, the same.
C31_SweepFrame ==
    [][Sweep =>
         /\ DOMAIN messageStore' \subseteq DOMAIN messageStore
         /\ \A id \in DOMAIN messageStore :
               LET entry == messageStore[id] IN
               /\ LiveAt(entry, now) =>
                     id \in DOMAIN messageStore' /\ messageStore'[id] = entry
               /\ id \notin DOMAIN messageStore' =>
                     entry.expiresAt <= now \/ entry.remainingViews <= 0
               /\ \A t \in {now, now + TickMs} :
                     (ReadResult(entry, t).status = 200
                        \/ ReadResult(Lookup(messageStore', id), t).status = 200)
                     => ReadResult(Lookup(messageStore', id), t) = ReadResult(entry, t)
      ]_vars

\* a sweep has run over an entry that was read once and is still live: it is
\* in the Map with the count the read left
C31_Witness ==
    /\ last.op = "sweep"
    /\ IdA \in DOMAIN messageStore
    /\ LiveAt(messageStore[IdA], last.t)
    /\ IdA \in DOMAIN hist
    /\ Len(hist[IdA].reads) = 1
    /\ hist[IdA].reads[1].status = 200
    /\ messageStore[IdA].remainingViews = hist[IdA].budget - 1
\* ---- the local fallback: a fetch after the expiry ----
\* C32: a fetchLocal(id) that finds in localStorage an entry of the id whose
\* expiresAt has passed fails with the expired outcome, not the not-found one,
\* and leaves localStorage without the entry.
C32_LocalExpiredFirst ==
    [][\A id \in ReadIds :
          (BothRead(id) /\ id \in DOMAIN stash /\ stash[id].expiresAt <= now)
          => /\ localLast'.kind = "expired"
             /\ localLast'.body.message = "This link has expired"
             /\ id \notin DOMAIN stash'
      ]_vars
\* ---- MessageViewer ----
HasRuns == viewer.runs # <<>>
Display(view) == <<view.phase, view.error, view.noteMeta, view.message>>
PasswordStep == HasRuns /\ viewer'.attempts = viewer.attempts + 1

\* C33: every hydrate run calls fetchMessage exactly once, when its timer fires;
\* a password submission reads nothing from the store and starts no run, whatever
\* the password; a wrong or empty password leaves the phase at awaiting-password
\* with a password error, and the right one opens the blob already fetched.
C33_OneFetchPerRun ==
    [][/\ \A i \in DOMAIN viewer'.runs :
             viewer'.runs[i].fetches = IF viewer'.runs[i].at = "timer" THEN 0 ELSE 1
       /\ PasswordStep =>
             /\ messageStore' = messageStore
             /\ last' = last
             /\ hist' = hist
             /\ viewer'.runs = viewer.runs
       /\ \A passwordInput \in PasswordInputs :
             SubmitPassword(passwordInput) =>
                IF Trim(passwordInput) = NotePassword
                THEN viewer'.phase = "ready" /\ viewer'.message = NoteMessage
                ELSE /\ viewer'.phase = "awaiting-password"
                     /\ viewer'.passwordError # Null
                     /\ viewer'.message = viewer.message
      ]_vars

\* a vault of two views opened after a failed attempt: one run, one fetch, one
\* view used
C33_Witness ==
    /\ HasRuns
    /\ viewer.attempts = 2
    /\ viewer.phase = "ready"
    /\ viewer.message = NoteMessage
    /\ Len(viewer.runs) = 1
    /\ viewer.runs[1].fetches = 1
    /\ IdA \in DOMAIN messageStore
    /\ messageStore[IdA].remainingViews = 1
    /\ Len(hist[IdA].reads) = 1
\* C34: a hydrate run cancelled by the cleanup before it called fetchMessage
\* never calls it: it makes no store read.
C34_CancelledRunReadsNothing ==
    \A i \in DOMAIN viewer.runs :
        viewer.runs[i].cancelledAt = "timer" => viewer.runs[i].fetches = 0

\* C35: a hydrate run that the cleanup has cancelled changes none of phase,
\* error, noteMeta and message when its fetch settles, whatever it settles to;
\* the run that changes them is the one started last.
C35_CancelledRunWritesNothing ==
    [][\A i \in 1..MaxRuns :
          (Settle(i) /\ Display(viewer') # Display(viewer))
          => ~viewer.runs[i].cancelled /\ i = Len(viewer.runs)
      ]_vars

\* the fetch of a cancelled run came back with the note while the next run is
\* still loading: nothing of the note is on the page
C35_Witness ==
    /\ viewer.mounted
    /\ Len(viewer.runs) = 2
    /\ viewer.runs[1].cancelled
    /\ viewer.runs[1].at = "done"
    /\ viewer.runs[1].settled.kind = "resolved"
    /\ viewer.runs[2].at = "timer"
    /\ viewer.phase = "loading"
    /\ viewer.noteMeta = Null

\* C36: when the viewer ends in the error phase because the link of a link-mode
\* or legacy note carries no key, its run has made no store read and the note
\* is in the store with the view count it was created with.
C36_NoKeyNoRead ==
    ( /\ viewer.mounted
      /\ viewer.phase = "error"
      /\ viewer.error = Text("This link is missing its secret key.") )
    => /\ viewer.runs[Len(viewer.runs)].fetches = 0
       /\ IdA \in DOMAIN messageStore
       /\ messageStore[IdA].remainingViews = hist[IdA].budget
\* ---- the share link of the composer ----
\* C37: the share link of a stored note has the query parameters id and key; key
\* is set exactly when the note was sealed in link mode (requiresPassword
\* false), and then it is the shareKey encryptMessage returned; no parameter is
\* the password, and the link of a password-mode note carries the id alone.
C37_LinkCarriesKeyOnlyInLinkMode ==
    \A i \in Persisted :
        LET link == sent[i].link
            envelope == JsonParse(sent[i].request.encrypted)
            result == Sealed(sent[i].form, sent[i].draw)
        IN  /\ DOMAIN link = {"id", "key"}
            /\ link.id = sent[i].draw.id
            /\ link.key # Undefined <=> ~result.requiresPassword
            /\ link.key # Undefined <=> envelope.mode = Text("link")
            /\ link.key # Undefined =>
                  /\ link.key = result.shareKey
                  /\ link.key = B64Stringify(RandomBytes(sent[i].draw.key, MASTER_KEY_BYTES))
            /\ {link.id, link.key}
                  \cap {sent[i].form.password, Trim(sent[i].form.password),
                        sent[i].form.confirmPassword} = {}

\* a note under a password and the same note under another password: neither
\* link has a key, and both notes are stored in password mode
C37_Witness ==
    /\ Len(sent) = 2
    /\ Persisted = {1, 2}
    /\ sent[1].form.protectWithPassword
    /\ sent[1].form.password # sent[2].form.password
    /\ sent[1].link.key = Undefined
    /\ sent[2].link.key = Undefined
    /\ JsonParse(sent[2].request.encrypted).mode = Text("password")

\* ---- the split of the 64-byte secret ----
HalfKey == KEY_HEX \div 2

\* C38: for every 64-byte secret splitMasterKey and splitDerivedKey give the same
\* pair, the cipher key being bytes 0..31 and the integrity key bytes 32..63 of
\* the secret; and the pair that link-mode decryption gets from the shareKey is
\* the pair encryptMessage sealed the envelope with.
C38_PositionalSplit ==
    /\ codec.phase = "split" =>
          /\ codec.master = codec.derived
          /\ codec.master.aesKey = Bytes(SubSeq(codec.secret.of.bytes, 1, HalfKey))
          /\ codec.master.hmacKey =
                Bytes(SubSeq(codec.secret.of.bytes, HalfKey + 1, 2 * HalfKey))
          /\ codec.master.aesKey.size = HalfKey
          /\ codec.master.hmacKey.size = HalfKey
    /\ (HasResult /\ ~PasswordGiven) =>
          LET keys == SplitMasterKey(B64Parse(codec.sealed.shareKey)) IN
          /\ ResultEnvelope.ciphertext.b64.of.key = keys.aesKey
          /\ ResultEnvelope.hmac.b64.of.key = keys.hmacKey
          /\ keys.aesKey.size = HalfKey
          /\ keys.hmacKey.size = HalfKey

C38_Witness ==
    /\ codec.phase = "split"
    /\ codec.secret.of.bytes[1] = 255
    /\ codec.secret.of.bytes[2] = 18
    /\ codec.master.aesKey.of.bytes[2] = 18
    /\ codec.derived.hmacKey.of.bytes[1] = (255 + 19 * HalfKey) % 256
\* ---- the comparison of tags ----
Compared == codec.phase = "compared"

\* bit k of x
BitAt(x, k) == (x \div (2 ^ k)) % 2

\* C39: timingSafeEqual(a, b) returns true exactly when a and b are the same
\* string; strings of unequal length compare unequal; for equal lengths the
\* loop examines every position, whether or not a difference was already seen,
\* and the result is true exactly when the OR of the per-position XORs is 0.
C39_TimingSafeEqual ==
    /\ Compared =>
          /\ codec.returned <=> codec.a = codec.b
          /\ Len(codec.a) # Len(codec.b) => ~codec.returned
          /\ Len(codec.a) = Len(codec.b) =>
                /\ codec.index = Len(codec.a)
                /\ codec.returned <=> codec.result = 0
    /\ codec.phase \in {"comparing", "compared"} /\ Len(codec.a) = Len(codec.b) =>
          \A k \in 0..7 :
              BitAt(codec.result, k) = 1 <=>
                  \E i \in 1..codec.index : BitAt(codec.a[i], k) # BitAt(codec.b[i], k)

C39_Witness ==
    /\ Compared
    /\ Len(codec.a) = 2
    /\ Len(codec.b) = 2
    /\ codec.a[1] # codec.b[1]
    /\ codec.a[2] = codec.b[2]
    /\ codec.index = 2
    /\ ~codec.returned
====
